---- MODULE Spec2Model ----
(***************************************************************************)
(* Capability-aware request relay of rmcpp: the client session of          *)
(* sse_client.py (method gate, retry executor, frame parsing and recovery).*)
(*                                                                         *)
(* Text is modelled as a sequence of symbols.  A symbol is one character   *)
(* ("{", "}", the double quote, the backslash, ":", ",", " ", newline) or  *)
(* a run of letters/digits that the code never looks into ("result",       *)
(* "error", "true", "1", "x", ...).  Positions are 0-based, as in Python.  *)
(***************************************************************************)
EXTENDS Integers, Sequences, FiniteSets, TLC

\* ------------------------------------------------------------------------
\* Bounds of the model
\* ------------------------------------------------------------------------
\* largest max_retries a session is configured with
MaxRetries == 2

\* no new call starts once the session has handed out this many request ids
MaxRequestId == 2

\* ------------------------------------------------------------------------
\* Text helpers (Python str operations used by the code)
\* ------------------------------------------------------------------------
LB == "{"
RB == "}"
QT == "\""
BS == "\\"
COLON == ":"
COMMA == ","
SP == " "
NL == "\n"

Whitespace == {SP, NL}

\* the JSON literals among the symbols: true and the numbers
NumberSymbols == {"1", "-32601", "-32000", "-32700"}

Literals == {"true"} \cup NumberSymbols

\* s[i] with Python's s[i:i+1] convention: "" past the end
At(s, i) == IF i >= 0 /\ i < Len(s) THEN s[i + 1] ELSE ""

\* s[a:b]
Slice(s, a, b) == SubSeq(s, a + 1, IF b > Len(s) THEN Len(s) ELSE b)

\* index of the first non-whitespace symbol at or after i (WHITESPACE.match(s, i).end())
RECURSIVE SkipWs(_, _)
SkipWs(s, i) == IF i < Len(s) /\ s[i + 1] \in Whitespace THEN SkipWs(s, i + 1) ELSE i

\* index after the last non-whitespace symbol
RECURSIVE RSkipWs(_, _)
RSkipWs(s, n) == IF n > 0 /\ s[n] \in Whitespace THEN RSkipWs(s, n - 1) ELSE n

\* a local variable: F applied to the value assigned to it
Let(v, F(_)) == F(v)

\* str.strip()
Strip(s) ==
    LET a == SkipWs(s, 0)
        b == RSkipWs(s, Len(s))
    IN  IF a >= b THEN << >> ELSE Slice(s, a, b)

\* str.find(ch): -1 when absent
RECURSIVE FindFrom(_, _, _)
FindFrom(s, ch, i) ==
    IF i >= Len(s) THEN -1
    ELSE IF s[i + 1] = ch THEN i ELSE FindFrom(s, ch, i + 1)

Find(s, ch) == FindFrom(s, ch, 0)

StartsWith(s, ch) == Len(s) > 0 /\ s[1] = ch

EndsWith(s, ch) == Len(s) > 0 /\ s[Len(s)] = ch

Contains(s, ch) == \E i \in 1..Len(s) : s[i] = ch

\* ------------------------------------------------------------------------
\* JSON values and json.loads
\*   [t |-> "lit", lit |-> symbol]     true
\*   [t |-> "num", n |-> integer]
\*   [t |-> "str", chars |-> sequence of symbols]
\*   [t |-> "obj", kv |-> sequence of [k |-> key symbols, v |-> value]]
\* A parse result is [ok |-> TRUE, val, end] or the JSONDecodeError
\* [ok |-> FALSE, pos, doc].
\* ------------------------------------------------------------------------
JLit(x) == [t |-> "lit", lit |-> x]
JNum(i) == [t |-> "num", n |-> i]
JStr(cs) == [t |-> "str", chars |-> cs]
JObj(pairs) == [t |-> "obj", kv |-> pairs]

\* the value of a literal symbol
LitValue(c) ==
    IF c = "1" THEN JNum(1)
    ELSE IF c = "-32601" THEN JNum(-32601)
    ELSE IF c = "-32000" THEN JNum(-32000)
    ELSE IF c = "-32700" THEN JNum(-32700)
    ELSE JLit(c)

POk(v, e) == [ok |-> TRUE, val |-> v, end |-> e]
PErr(s, p) == [ok |-> FALSE, pos |-> p, doc |-> s]

\* py_scanstring / scanstring: end is the index after the opening quote
RECURSIVE ScanStringFrom(_, _, _, _)
ScanStringFrom(s, begin, j, acc) ==
    IF j >= Len(s) THEN PErr(s, begin)
    ELSE LET c == s[j + 1] IN
         IF c = QT THEN POk(acc, j + 1)
         ELSE IF c = NL THEN PErr(s, j)
         ELSE IF c = BS THEN
              IF j + 1 >= Len(s) THEN PErr(s, begin)
              ELSE IF s[j + 2] \in {QT, BS}
                   THEN ScanStringFrom(s, begin, j + 2, Append(acc, s[j + 2]))
                   ELSE PErr(s, j)
         ELSE ScanStringFrom(s, begin, j + 1, Append(acc, c))

ScanString(s, end) == ScanStringFrom(s, end - 1, end, << >>)

RECURSIVE ScanOnce(_, _)
RECURSIVE ObjMembers(_, _, _)

\* JSONObject: end is the index after the opening brace
JSONObject(s, end0) ==
    Let(IF At(s, end0) # QT /\ At(s, end0) \in Whitespace
        THEN SkipWs(s, end0) ELSE end0,
        LAMBDA e1 :
          IF At(s, e1) = RB THEN POk(JObj(<< >>), e1 + 1)
          ELSE IF At(s, e1) # QT THEN PErr(s, e1)
          ELSE ObjMembers(s, e1 + 1, << >>))

\* the "while True" loop of JSONObject: end is the index after the key's opening quote
ObjMembers(s, end, pairs) ==
    Let(ScanString(s, end), LAMBDA k :
    IF ~k.ok THEN k
    ELSE
    Let(IF At(s, k.end) # COLON THEN SkipWs(s, k.end) ELSE k.end, LAMBDA e2 :
    IF At(s, e2) # COLON THEN PErr(s, e2)
    ELSE
    Let(ScanOnce(s, SkipWs(s, e2 + 1)), LAMBDA v :
    IF ~v.ok THEN v
    ELSE
    Let(SkipWs(s, v.end), LAMBDA e4 :
    Let(Append(pairs, [k |-> k.val, v |-> v.val]), LAMBDA pairs2 :
    IF At(s, e4) = RB THEN POk(JObj(pairs2), e4 + 1)
    ELSE IF At(s, e4) # COMMA THEN PErr(s, e4)
    ELSE
    Let(SkipWs(s, e4 + 1), LAMBDA e5 :
    IF At(s, e5) # QT THEN PErr(s, e5)
    ELSE ObjMembers(s, e5 + 1, pairs2)))))))

\* scan_once: one JSON value starting at idx
ScanOnce(s, idx) ==
    IF idx >= Len(s) THEN PErr(s, idx)
    ELSE IF s[idx + 1] = QT THEN
            Let(ScanString(s, idx + 1), LAMBDA r :
                IF r.ok THEN POk(JStr(r.val), r.end) ELSE r)
         ELSE IF s[idx + 1] = LB THEN JSONObject(s, idx + 1)
         ELSE IF s[idx + 1] \in Literals THEN POk(LitValue(s[idx + 1]), idx + 1)
         ELSE PErr(s, idx)

\* json.loads(s): JSONDecoder.decode, "Extra data" when text follows the value
json_loads(s) ==
    Let(ScanOnce(s, SkipWs(s, 0)), LAMBDA r :
    IF ~r.ok THEN r
    ELSE Let(SkipWs(s, r.end), LAMBDA e :
         IF e # Len(s) THEN PErr(s, e) ELSE POk(r.val, e)))

\* ------------------------------------------------------------------------
\* Python values, exceptions and outcomes
\*   a value is a JSON value, [t |-> "bytes"], [t |-> "None"] or an
\*   ErrorResponse; a str is [t |-> "str", ...] and a dict [t |-> "obj", ...]
\*   an outcome is Ret(value) or Raise(exception)
\* ------------------------------------------------------------------------
PyNone == [t |-> "None"]
PyBytes == [t |-> "bytes"]

\* class ErrorResponse: code and message
ErrorResponse(c, m) == [t |-> "ErrorResponse", code |-> c, message |-> m]

Text(tag) == JStr(<< tag >>)

\* substrings of an exception message that the code searches for
Markers == {"Unexpected non-whitespace character", "JSON", "SyntaxError",
            "Method not found", "-32601"}

\* an exception: class, the markers its message contains, and for a
\* JSONDecodeError its pos and doc (pos = -1 and doc = <<>> otherwise)
Exc(cls, marks) == [cls |-> cls, marks |-> marks, pos |-> -1, doc |-> << >>]
JSONDecodeError(marks, doc, pos) ==
    [cls |-> "JSONDecodeError", marks |-> marks, pos |-> pos, doc |-> doc]

\* the JSONDecodeError json.loads raises: none of its messages holds a marker
DecodeErrorOf(r) == JSONDecodeError({}, r.doc, r.pos)

Ret(v) == [raise |-> FALSE, val |-> v]
Raise(e) == [raise |-> TRUE, exc |-> e]

IsStr(v) == v.t = "str"
IsDict(v) == v.t = "obj"

\* key in dict
HasKey(d, key) == \E i \in 1..Len(d.kv) : d.kv[i].k = << key >>

\* dict.get(key, default): the last pair with the key wins
DictGet(d, key, default) ==
    IF HasKey(d, key)
    THEN LET i == CHOOSE j \in 1..Len(d.kv) :
                      /\ d.kv[j].k = << key >>
                      /\ \A l \in (j + 1)..Len(d.kv) : d.kv[l].k # << key >>
         IN  d.kv[i].v
    ELSE default

Pair(key, v) == [k |-> << key >>, v |-> v]

\* the error frame with the request id written into its message as well
ParseErrorFrameNumbered(tag, rid) ==
    JObj(<< Pair("jsonrpc", Text("2.0")),
            Pair("error", JObj(<< Pair("code", JNum(-32700)),
                                  Pair("message", JStr(<< tag >> \o [i \in 1..rid |-> "#"])) >>)),
            Pair("id", JNum(rid)) >>)

\* the -32700 error frame the patched read paths build
ParseErrorFrame(tag, rid) ==
    JObj(<< Pair("jsonrpc", Text("2.0")),
            Pair("error", JObj(<< Pair("code", JNum(-32700)),
                                  Pair("message", Text(tag)) >>)),
            Pair("id", JNum(rid)) >>)

\* ------------------------------------------------------------------------
\* The patched read paths of _patch_read_stream
\* ------------------------------------------------------------------------
\* "first JSON object": the text up to the first closing brace, else the text
FirstBraceParse(str) ==
    Let(Strip(str), LAMBDA result_str :
        json_loads(IF StartsWith(result_str, LB) /\ Contains(result_str, RB)
                   THEN Slice(result_str, 0, Find(result_str, RB) + 1)
                   ELSE result_str))

\* enhanced_receive (MemoryObjectReceiveStream), reached through read_wrapper
enhanced_receive(raw, rid) ==
    IF raw.raise THEN raw
    ELSE IF IsStr(raw.val)
    THEN Let(FirstBraceParse(raw.val.chars), LAMBDA r :
             IF r.ok THEN Ret(r.val)
             ELSE Ret(ParseErrorFrame("JSON parsing error", rid)))
    ELSE raw

\* the "except json.JSONDecodeError" handler of enhanced_read
RecoverDecodeError(je, rid) ==
    Let(Strip(Slice(je.doc, 0, je.pos)), LAMBDA prefix :
    Let(json_loads(prefix), LAMBDA r :
        IF Len(je.doc) > 0 /\ je.pos > 0 /\ EndsWith(prefix, RB) /\ r.ok
        THEN Ret(r.val)
        ELSE Ret(ParseErrorFrame("JSON parsing error at position", rid))))

\* the "except Exception" handler of enhanced_read
HandleReadException(e, rid) ==
    IF "Unexpected non-whitespace character" \in e.marks \/ "JSON" \in e.marks
    THEN Ret(ParseErrorFrame("JSON parsing error at position", rid))
    ELSE Raise(e)

\* enhanced_read (streams with a read method)
enhanced_read(raw, rid) ==
    IF raw.raise
    THEN IF raw.exc.cls = "JSONDecodeError"
         THEN RecoverDecodeError(raw.exc, rid)
         ELSE HandleReadException(raw.exc, rid)
    ELSE IF IsStr(raw.val)
    THEN Let(FirstBraceParse(raw.val.chars), LAMBDA r :
             IF ~r.ok THEN RecoverDecodeError(DecodeErrorOf(r), rid)
             ELSE IF ~IsDict(r.val)
             THEN Ret(ParseErrorFrame("Invalid response format", rid))
             ELSE Ret(r.val))
    ELSE IF ~IsDict(raw.val)
    THEN Ret(ParseErrorFrame("Invalid response format", rid))
    ELSE raw

\* the -32700 error frame of sse_server's enhanced_receive: its id is None
ServerParseErrorFrame(tag) ==
    JObj(<< Pair("jsonrpc", Text("2.0")),
            Pair("error", JObj(<< Pair("code", JNum(-32700)),
                                  Pair("message", Text(tag)) >>)),
            Pair("id", PyNone) >>)

\* the "except json.JSONDecodeError" handler of sse_server's enhanced_receive
ServerRecoverDecodeError(je) ==
    Let(Strip(Slice(je.doc, 0, je.pos)), LAMBDA prefix :
    Let(json_loads(prefix), LAMBDA r :
        IF Len(je.doc) > 0 /\ je.pos > 0 /\ EndsWith(prefix, RB) /\ r.ok
        THEN Ret(r.val)
        ELSE Ret(ServerParseErrorFrame("JSON parsing error at position"))))

\* sse_server's enhanced_receive, patched onto the read stream of handle_sse
server_enhanced_receive(raw) ==
    IF raw.raise
    THEN IF raw.exc.cls = "JSONDecodeError"
         THEN ServerRecoverDecodeError(raw.exc)
         ELSE IF "Unexpected non-whitespace character" \in raw.exc.marks
                    \/ "JSON" \in raw.exc.marks
         THEN Ret(ServerParseErrorFrame("JSON parsing error at position"))
         ELSE raw
    ELSE IF IsStr(raw.val)
    THEN Let(FirstBraceParse(raw.val.chars), LAMBDA r :
             IF ~r.ok THEN ServerRecoverDecodeError(DecodeErrorOf(r))
             ELSE IF ~IsDict(r.val)
             THEN Ret(ServerParseErrorFrame("Invalid message format"))
             ELSE Ret(r.val))
    ELSE IF ~IsDict(raw.val)
    THEN Ret(ServerParseErrorFrame("Invalid message format"))
    ELSE raw

\* the kinds of read stream a session can be built on:
\*   "memory"  MemoryObjectReceiveStream, patched with enhanced_receive
\*   "read"    a stream with read and no original_read, patched with enhanced_read
\*   "plain"   a stream that already has original_read: left unpatched
StreamKinds == {"memory", "read", "plain"}

\* read_stream.read() as _send_request sees it
StreamRead(kind, raw, rid) ==
    IF kind = "memory" THEN enhanced_receive(raw, rid)
    ELSE IF kind = "read" THEN enhanced_read(raw, rid)
    ELSE raw

\* ------------------------------------------------------------------------
\* _send_request: the response handling after the read
\* ------------------------------------------------------------------------
\* the brace-depth scan: actual_end, 0 when the depth never returns to zero
RECURSIVE ScanDepth(_, _, _, _, _)
ScanDepth(s, i, obj_depth, in_string, escape_next) ==
    IF i >= Len(s) THEN 0
    ELSE LET c == s[i + 1] IN
         IF escape_next THEN ScanDepth(s, i + 1, obj_depth, in_string, FALSE)
         ELSE IF c = BS /\ in_string THEN ScanDepth(s, i + 1, obj_depth, in_string, TRUE)
         ELSE LET ins == IF c = QT THEN ~in_string ELSE in_string IN
              IF ~ins /\ c = LB THEN ScanDepth(s, i + 1, obj_depth + 1, ins, FALSE)
              ELSE IF ~ins /\ c = RB
              THEN IF obj_depth - 1 = 0 THEN i + 1
                   ELSE ScanDepth(s, i + 1, obj_depth - 1, ins, FALSE)
              ELSE ScanDepth(s, i + 1, obj_depth, ins, FALSE)

\* the extraction that stops at the first closing brace, quoted or not
ExtractedJsonFirstBrace(response) ==
    IF StartsWith(response, LB) /\ Contains(response, RB)
    THEN Slice(response, 0, Find(response, RB) + 1)
    ELSE response

\* the extraction that starts at the first opening brace of the text
ExtractedJsonSkipLead(response) ==
    Let(IF Contains(response, LB)
        THEN Slice(response, Find(response, LB), Len(response)) ELSE response,
        LAMBDA r :
          IF StartsWith(r, LB) /\ Contains(r, RB)
          THEN Let(ScanDepth(r, 0, 0, FALSE, FALSE), LAMBDA actual_end :
                   IF actual_end > 0 THEN Slice(r, 0, actual_end)
                   ELSE Slice(r, 0, Find(r, RB) + 1))
          ELSE r)

\* the text _send_request hands to json.loads
ExtractedJson(response) ==
    IF StartsWith(response, LB) /\ Contains(response, RB)
    THEN Let(ScanDepth(response, 0, 0, FALSE, FALSE), LAMBDA actual_end :
             IF actual_end > 0 THEN Slice(response, 0, actual_end)
             ELSE Slice(response, 0, Find(response, RB) + 1))
    ELSE response

\* "Handle response" returning the whole response instead of its result
HandleResponseWhole(response) ==
    IF HasKey(response, "error")
    THEN Let(DictGet(response, "error", PyNone), LAMBDA error :
             IF IsDict(error)
             THEN Ret(ErrorResponse(DictGet(error, "code", JNum(0)),
                                    DictGet(error, "message", Text("Unknown error"))))
             ELSE Raise(Exc("AttributeError", {})))
    ELSE Ret(response)

\* "Handle response": error object or result
HandleResponse(response) ==
    IF HasKey(response, "error")
    THEN Let(DictGet(response, "error", PyNone), LAMBDA error :
             IF IsDict(error)
             THEN Ret(ErrorResponse(DictGet(error, "code", JNum(0)),
                                    DictGet(error, "message", Text("Unknown error"))))
             ELSE Raise(Exc("AttributeError", {})))
    ELSE Ret(DictGet(response, "result", PyNone))

\* the response handling without the conversion of read-side exceptions
ProcessResponseReraise(rd) ==
    IF rd.raise THEN rd
    ELSE IF IsStr(rd.val)
    THEN Let(json_loads(ExtractedJson(rd.val.chars)), LAMBDA r :
             IF ~r.ok THEN Raise(DecodeErrorOf(r))
             ELSE IF ~IsDict(r.val)
             THEN Ret(ErrorResponse(JNum(-32700), Text("Invalid response format")))
             ELSE HandleResponse(r.val))
    ELSE IF ~IsDict(rd.val)
    THEN Ret(ErrorResponse(JNum(-32700), Text("Invalid response format")))
    ELSE HandleResponse(rd.val)

\* the response handling converting decode errors only: any other exception
\* of the read leaves _send_request
ProcessResponseDecodeOnly(rd) ==
    IF rd.raise
    THEN IF rd.exc.cls = "JSONDecodeError"
         THEN Ret(ErrorResponse(JNum(-32700), Text("JSON parsing error")))
         ELSE rd
    ELSE IF IsStr(rd.val)
    THEN Let(json_loads(ExtractedJson(rd.val.chars)), LAMBDA r :
             IF ~r.ok THEN Ret(ErrorResponse(JNum(-32700), Text("JSON parsing error")))
             ELSE IF ~IsDict(r.val)
             THEN Ret(ErrorResponse(JNum(-32700), Text("Invalid response format")))
             ELSE HandleResponse(r.val))
    ELSE IF ~IsDict(rd.val)
    THEN Ret(ErrorResponse(JNum(-32700), Text("Invalid response format")))
    ELSE HandleResponse(rd.val)

\* everything _send_request does with the outcome of read_stream.read()
ProcessResponse(rd) ==
    IF rd.raise THEN Ret(ErrorResponse(JNum(-32700), Text("JSON parsing error")))
    ELSE IF IsStr(rd.val)
    THEN Let(json_loads(ExtractedJson(rd.val.chars)), LAMBDA r :
             IF ~r.ok THEN Ret(ErrorResponse(JNum(-32700), Text("JSON parsing error")))
             ELSE IF ~IsDict(r.val)
             THEN Ret(ErrorResponse(JNum(-32700), Text("Invalid response format")))
             ELSE HandleResponse(r.val))
    ELSE IF ~IsDict(rd.val)
    THEN Ret(ErrorResponse(JNum(-32700), Text("Invalid response format")))
    ELSE HandleResponse(rd.val)

\* ------------------------------------------------------------------------
\* Capabilities and the method gate
\* ------------------------------------------------------------------------
Families == {"resources", "prompts", "tools"}

\* what getattr(server_capabilities, family, False) finds: no attribute,
\* a falsy attribute (None) or a truthy one
CapValues == {"absent", "falsy", "truthy"}

\* server_capabilities = {} of __init__: a dict has none of the attributes
NoCapabilities == [f \in Families |-> "absent"]

\* the capability sets an upstream reports at the handshake
CapSets ==
    { [resources |-> "absent", prompts |-> "absent", tools |-> "truthy"],
      [resources |-> "truthy", prompts |-> "falsy",  tools |-> "absent"],
      [resources |-> "falsy",  prompts |-> "truthy", tools |-> "falsy"],
      [resources |-> "truthy", prompts |-> "truthy", tools |-> "truthy"] }

Methods == {"initialize", "resources/list", "prompts/get", "tools/call", "ping"}

\* a capability value as get_capability sees it: whether it is truthy and
\* the attributes it has, as a set of [name, value]; None has none
CapNone == [truthy |-> FALSE, attrs |-> {}]
CapObject(attrs) == [truthy |-> TRUE, attrs |-> attrs]
CapAttr(name, value) == [name |-> name, value |-> value]

\* hasattr(obj, part) and getattr(obj, part)
hasattr(obj, part) == \E a \in obj.attrs : a.name = part
getattr(obj, part) == (CHOOSE a \in obj.attrs : a.name = part).value

\* get_capability without the early return: a missing segment is skipped
RECURSIVE WalkLenient(_, _)
WalkLenient(obj, parts) ==
    IF parts = << >> THEN obj.truthy
    ELSE IF ~hasattr(obj, Head(parts)) THEN WalkLenient(obj, Tail(parts))
    ELSE WalkLenient(getattr(obj, Head(parts)), Tail(parts))

get_capability_lenient(caps, path) ==
    IF ~caps.truthy THEN FALSE ELSE WalkLenient(caps, path)

\* the loop of get_capability over path.split('.')
RECURSIVE Walk(_, _)
Walk(obj, parts) ==
    IF parts = << >> THEN obj.truthy
    ELSE IF ~hasattr(obj, Head(parts)) THEN FALSE
    ELSE Walk(getattr(obj, Head(parts)), Tail(parts))

\* get_capability(capabilities, path), the path given as its segments
get_capability(caps, path) ==
    IF ~caps.truthy THEN FALSE ELSE Walk(caps, path)

\* the method names of the three families
ResourceMethods ==
    {"resources/list", "resources/read", "resources/subscribe", "resources/unsubscribe"}
PromptMethods == {"prompts/list", "prompts/get"}
ToolMethods == {"tools/list", "tools/call"}

\* method_name.startswith(family + "/")
FamilyOf(method) ==
    IF method \in ResourceMethods THEN "resources"
    ELSE IF method \in PromptMethods THEN "prompts"
    ELSE IF method \in ToolMethods THEN "tools"
    ELSE "none"

\* _is_method_supported with a family whose capability is merely present
\* (not None checked instead of truthiness) taken as supported
is_method_supported_present(method_name, disable, unsupported, caps) ==
    IF disable THEN TRUE
    ELSE IF method_name \in unsupported THEN FALSE
    ELSE IF method_name \in {"initialize", "notifications/initialized"} THEN TRUE
    ELSE IF FamilyOf(method_name) \in Families THEN caps[FamilyOf(method_name)] # "absent"
    ELSE TRUE

\* _is_method_supported with the deny-list consulted after the capabilities
is_method_supported_caps_first(method_name, disable, unsupported, caps) ==
    IF disable THEN TRUE
    ELSE IF method_name \in {"initialize", "notifications/initialized"} THEN TRUE
    ELSE IF FamilyOf(method_name) \in Families THEN caps[FamilyOf(method_name)] = "truthy"
    ELSE method_name \notin unsupported

\* _is_method_supported with the handshake methods allowed before the
\* deny-list is consulted
is_method_supported_handshake_first(method_name, disable, unsupported, caps) ==
    IF disable THEN TRUE
    ELSE IF method_name \in {"initialize", "notifications/initialized"} THEN TRUE
    ELSE IF method_name \in unsupported THEN FALSE
    ELSE IF FamilyOf(method_name) \in Families THEN caps[FamilyOf(method_name)] = "truthy"
    ELSE TRUE

\* _is_method_supported
is_method_supported(method_name, disable, unsupported, caps) ==
    IF disable THEN TRUE
    ELSE IF method_name \in unsupported THEN FALSE
    ELSE IF method_name \in {"initialize", "notifications/initialized"} THEN TRUE
    ELSE IF FamilyOf(method_name) = "resources" THEN caps["resources"] = "truthy"
    ELSE IF FamilyOf(method_name) = "prompts" THEN caps["prompts"] = "truthy"
    ELSE IF FamilyOf(method_name) = "tools" THEN caps["tools"] = "truthy"
    ELSE TRUE

\* ------------------------------------------------------------------------
\* What the upstream channel can do: the frames it delivers and the
\* exceptions its write and read raise
\* ------------------------------------------------------------------------
Key(name) == << QT, name, QT, COLON >>

\* {"id":1,"result":{"data":true}}
NestedMsg == << LB >> \o Key("id") \o << "1", COMMA >> \o Key("result")
             \o << LB >> \o Key("data") \o << "true", RB, RB >>

\* {"id":1,"result":1}
FlatMsg == << LB >> \o Key("id") \o << "1", COMMA >> \o Key("result") \o << "1", RB >>

\* {"id":1,"method":"x"}
SecondMsg == << LB >> \o Key("id") \o << "1", COMMA >> \o Key("method")
             \o << QT, "x", QT, RB >>

\* {"result":"}"}: a closing brace inside quoted text
BraceInTextMsg == << LB >> \o Key("result") \o << QT, RB, QT, RB >>

\* {"error":{"code":-32601,"message":"Method not found"}}
NotFoundMsg == << LB >> \o Key("error") \o << LB >> \o Key("code")
               \o << "-32601", COMMA >> \o Key("message")
               \o << QT, "Method not found", QT, RB, RB >>

\* {"error":{"code":-32000,"message":"x"}}: an application-level error
AppErrorMsg == << LB >> \o Key("error") \o << LB >> \o Key("code")
               \o << "-32000", COMMA >> \o Key("message") \o << QT, "x", QT, RB, RB >>

\* {"error":"x"}: an error member that is not an object
BadErrorMsg == << LB >> \o Key("error") \o << QT, "x", QT, RB >>

\* well-formed messages whose first symbol is the opening brace
WellFormedMsgs == {NestedMsg, FlatMsg, BraceInTextMsg}

\* what may stand between the two messages of a frame
Separators == {<< >>, << SP >>, << NL >>}

\* a first message followed by a second message or by garbage
ConcatenatedFrames ==
    { NestedMsg \o sep \o SecondMsg : sep \in Separators }
        \cup { NestedMsg \o << "x" >>, FlatMsg \o SecondMsg }

MalformedFrames ==
    { Slice(NestedMsg, 0, Len(NestedMsg) - 1),     \* missing closing brace
      << "x" >> \o NestedMsg,                      \* garbage before a message
      << "x" >>,                                   \* not JSON
      << "1" >> }                                  \* JSON, not an object

\* text frames
StrFrames == WellFormedMsgs \cup ConcatenatedFrames \cup MalformedFrames

Parsed(text) == json_loads(text).val

\* frames delivered as objects
DictFrames == { Parsed(NestedMsg), Parsed(NotFoundMsg), Parsed(AppErrorMsg),
                Parsed(BadErrorMsg), Parsed(<< LB, RB >>) }

TransportError == Exc("ConnectionError", {})

WriteExceptions ==
    { TransportError,
      Exc("McpError", {"Method not found"}),
      Exc("Exception", {"SyntaxError"}) }

\* the methods the upstream does not implement: only a call to one of them
\* is answered with "Method not found"
NotImplemented == {"initialize", "prompts/get", "ping"}

IsNotFound(e) == "Method not found" \in e.marks \/ "-32601" \in e.marks

ReadExceptions ==
    { TransportError,
      JSONDecodeError({"Unexpected non-whitespace character", "JSON"},
                      << LB, "a", "b", "c", RB >>, 4),
      JSONDecodeError({}, NestedMsg \o SecondMsg, Len(NestedMsg)) }

\* the outcomes of original_read / original_receive
RawReads ==
    { Ret(JStr(f)) : f \in StrFrames } \cup { Ret(d) : d \in DictFrames }
        \cup { Ret(PyBytes) } \cup { Raise(e) : e \in ReadExceptions }

\* ------------------------------------------------------------------------
\* Session state
\* ------------------------------------------------------------------------
VARIABLES
    server_capabilities,        \* self.server_capabilities
    unsupported_methods,        \* self.unsupported_methods, the deny-list
    max_retries,                \* self.max_retries
    disable_capability_check,   \* self.disable_capability_check, the bypass
    request_id,                 \* self._request_id
    stream_kind,                \* the kind of read stream the session was built on
    initialized,                \* initialize() has returned
    call,                       \* the calls of _send_request_with_retry, per caller
    journal,                    \* history: what read_stream.read() returned so far
    capabilities,               \* create_proxy_server: response.capabilities
    request_handlers,           \* create_proxy_server: app.request_handlers
    notification_handlers,      \* create_proxy_server: app.notification_handlers
    handshake,                  \* the session's handshake: where it stands, how often it ran
    downstream,                 \* the requests the downstream client has sent so far
    notification,               \* the progress notification being forwarded
    wrapper,                    \* the wrapped handler serving a downstream request
    relay                       \* run_sse_client / run_sse_server: mode, retry_count, position

\* the state of the proxy server built on the session
proxy_vars == << capabilities, request_handlers, notification_handlers >>

\* the state of the program that runs the session and the proxy server
relay_vars == << handshake, downstream, notification, wrapper, relay >>

vars == << server_capabilities, unsupported_methods, max_retries,
           disable_capability_check, request_id, stream_kind, initialized, call,
           journal, proxy_vars, relay_vars >>

\* seconds are counted in tenths; the base backoff unit is 0.5 s
BackoffUnit == 5

\* a call that has not started
IdleCall ==
    [pc |-> "idle", method |-> "", attempt |-> 0, rid |-> 0, sends |-> 0, reads |-> 0,
     delays |-> << >>, hist |-> << >>, denied |-> FALSE, via |-> "", cancelled |-> FALSE,
     outcome |-> Ret(PyNone)]

\* an entry of a call's history, one per attempt that ended: the channel
\* step that ended it, what the channel did there, and how _send_request ended
Event(step, raw, out) == [step |-> step, raw |-> raw, out |-> out]

\* the journal of a session that is observed without one, and an empty one
NoJournal == [on |-> FALSE, log |-> << >>]
EmptyJournal == [on |-> TRUE, log |-> << >>]

\* a journal entry: what the channel delivered, the request id the session
\* had then, the frame read_stream.read() returned and how _send_request ended
JournalEntry(raw, rid, frame, out) == [raw |-> raw, rid |-> rid, frame |-> frame, out |-> out]

Logged(j, entry) == IF j.on THEN [j EXCEPT !.log = Append(@, entry)] ELSE j

\* the handshake of a session on which initialize() was never called, and
\* the handshake after initialize() was called, has returned, has raised
NoHandshake == [pc |-> "none", count |-> 0]
HandshakeCalled(h) == [pc |-> "running", count |-> h.count + 1]
HandshakeReturned(h) == [h EXCEPT !.pc = "returned"]
HandshakeRaised(h) == [h EXCEPT !.pc = "raised"]

\* no progress notification is being forwarded
IdleNotification ==
    [pc |-> "idle", sends |-> 0, result |-> Ret(PyNone), outcome |-> Ret(PyNone)]

\* the program at the start of its first session: run_sse_client
\* ("client"), or run_sse_server ("server") with retry_count = 0
RelayStart(mode) ==
    [mode |-> mode, pc |-> "session", retry_count |-> 0, wait_time |-> 0, attempts |-> 1]

\* no downstream request is being served by a wrapped handler
IdleWrapper ==
    [pc |-> "idle", req |-> "", runs |-> 0, first |-> Ret(PyNone), second |-> Ret(PyNone),
     outcome |-> Ret(PyNone)]

\* no proxy server has been created on the session
NoProxy ==
    /\ capabilities = CapNone
    /\ request_handlers = {}
    /\ notification_handlers = {}
    /\ handshake = NoHandshake
    /\ downstream = {}
    /\ notification = IdleNotification
    /\ wrapper = IdleWrapper
    /\ relay = RelayStart("client")

InitWith(callers) ==
    /\ server_capabilities = NoCapabilities
    /\ unsupported_methods = {}
    /\ max_retries \in 0..MaxRetries
    /\ disable_capability_check \in BOOLEAN
    /\ request_id = 0
    /\ stream_kind \in StreamKinds
    /\ initialized = FALSE
    /\ call = [c \in callers |-> IdleCall]

Init == InitWith({1}) /\ journal = NoJournal /\ NoProxy

\* initialize(): the handshake stores the capabilities the upstream reports
Initialize ==
    /\ ~initialized
    /\ \E caps \in CapSets : server_capabilities' = caps
    /\ initialized' = TRUE
    /\ handshake' = HandshakeReturned(HandshakeCalled(handshake))
    /\ UNCHANGED << unsupported_methods, max_retries, disable_capability_check,
                    request_id, stream_kind, call >>
    /\ UNCHANGED << journal, proxy_vars, downstream, notification, wrapper, relay >>

\* the positional arguments an overriding method passes on to
\* _send_request_with_retry after the method name
PositionalArgs(method_name, first, second) ==
    IF method_name \in {"prompts/get", "tools/call"} THEN << first, second >>
    ELSE IF method_name = "resources/read" THEN << first >>
    ELSE << >>

\* no keyword arguments
NoKwargs == JObj(<< >>)

\* request_data: "params" is kwargs if there are any, else the first
\* positional argument if there is one, else {}
request_data(method_name, rid, args, kwargs) ==
    JObj(<< Pair("jsonrpc", Text("2.0")), Pair("id", JNum(rid)),
            Pair("method", Text(method_name)),
            Pair("params", IF kwargs.kv # << >> THEN kwargs
                           ELSE IF args # << >> THEN args[1] ELSE JObj(<< >>)) >>)

\* the call record after _send_request has taken the next request id and
\* invoked write_stream.write
BeginAttempt(rec, attempt) ==
    [rec EXCEPT !.pc = "write", !.attempt = attempt, !.rid = request_id + 1,
                !.sends = @ + 1]

Finish(rec, out) == [rec EXCEPT !.pc = "done", !.outcome = out]

\* _send_request_with_retry up to its first await: the gate, then the
\* first attempt's write
CallStart(c, m) ==
    /\ call[c].pc = "idle"
    /\ request_id < MaxRequestId
    /\ LET rec == [IdleCall EXCEPT !.method = m, !.denied = m \in unsupported_methods,
                                   !.via = "retry"] IN
       IF ~is_method_supported(m, disable_capability_check, unsupported_methods,
                               server_capabilities)
       THEN /\ call' = [call EXCEPT ![c] =
                           Finish(rec, Ret(ErrorResponse(JNum(-32601), Text("Method not found"))))]
            /\ UNCHANGED request_id
       ELSE IF max_retries + 1 <= 0
       THEN /\ call' = [call EXCEPT ![c] = Finish(rec, Ret(PyNone))]
            /\ UNCHANGED request_id
       ELSE /\ call' = [call EXCEPT ![c] = BeginAttempt(rec, 0)]
            /\ request_id' = request_id + 1
    /\ UNCHANGED << server_capabilities, unsupported_methods, max_retries,
                    disable_capability_check, stream_kind, initialized >>
    /\ UNCHANGED << journal, proxy_vars, relay_vars >>

\* the delay computed from attempt instead of attempt + 1
DelayFromZero(attempt) == attempt * BackoffUnit

\* delay = (attempt + 1) * 0.5
Delay(attempt) == (attempt + 1) * BackoffUnit

\* the "except Exception" clause without its two early returns: every
\* exception is retried
ClassifyRetryAll(c, rec, e) ==
    IF rec.attempt < max_retries
    THEN /\ call' = [call EXCEPT ![c] =
                        [rec EXCEPT !.pc = "sleep",
                                    !.delays = Append(@, Delay(rec.attempt))]]
         /\ UNCHANGED unsupported_methods
    ELSE /\ call' = [call EXCEPT ![c] = Finish(rec, Raise(e))]
         /\ UNCHANGED unsupported_methods

\* the "except Exception" clause with the deny-list assigned, not added to
ClassifyReplace(c, rec, e) ==
    IF "Unexpected non-whitespace character" \in e.marks \/ "SyntaxError" \in e.marks
    THEN /\ call' = [call EXCEPT ![c] =
                        Finish(rec, Ret(ErrorResponse(JNum(-32700), Text("JSON parsing error"))))]
         /\ UNCHANGED unsupported_methods
    ELSE IF "Method not found" \in e.marks \/ "-32601" \in e.marks
    THEN /\ unsupported_methods' = {rec.method}
         /\ call' = [call EXCEPT ![c] =
                        Finish(rec, Ret(ErrorResponse(JNum(-32601), Text("Method not found"))))]
    ELSE IF rec.attempt < max_retries
    THEN /\ call' = [call EXCEPT ![c] =
                        [rec EXCEPT !.pc = "sleep",
                                    !.delays = Append(@, Delay(rec.attempt))]]
         /\ UNCHANGED unsupported_methods
    ELSE /\ call' = [call EXCEPT ![c] = Finish(rec, Raise(e))]
         /\ UNCHANGED unsupported_methods

\* the "except Exception" clause recording the method whenever the call gives up
ClassifyDenyAll(c, rec, e) ==
    IF "Unexpected non-whitespace character" \in e.marks \/ "SyntaxError" \in e.marks
    THEN /\ call' = [call EXCEPT ![c] =
                        Finish(rec, Ret(ErrorResponse(JNum(-32700), Text("JSON parsing error"))))]
         /\ UNCHANGED unsupported_methods
    ELSE IF "Method not found" \in e.marks \/ "-32601" \in e.marks
    THEN /\ unsupported_methods' = unsupported_methods \cup {rec.method}
         /\ call' = [call EXCEPT ![c] =
                        Finish(rec, Ret(ErrorResponse(JNum(-32601), Text("Method not found"))))]
    ELSE IF rec.attempt < max_retries
    THEN /\ call' = [call EXCEPT ![c] =
                        [rec EXCEPT !.pc = "sleep",
                                    !.delays = Append(@, Delay(rec.attempt))]]
         /\ UNCHANGED unsupported_methods
    ELSE /\ call' = [call EXCEPT ![c] = Finish(rec, Raise(e))]
         /\ unsupported_methods' = unsupported_methods \cup {rec.method}

\* the "except Exception" clause retrying once more than max_retries allows
ClassifyOneMore(c, rec, e) ==
    IF "Unexpected non-whitespace character" \in e.marks \/ "SyntaxError" \in e.marks
    THEN /\ call' = [call EXCEPT ![c] =
                        Finish(rec, Ret(ErrorResponse(JNum(-32700), Text("JSON parsing error"))))]
         /\ UNCHANGED unsupported_methods
    ELSE IF "Method not found" \in e.marks \/ "-32601" \in e.marks
    THEN /\ unsupported_methods' = unsupported_methods \cup {rec.method}
         /\ call' = [call EXCEPT ![c] =
                        Finish(rec, Ret(ErrorResponse(JNum(-32601), Text("Method not found"))))]
    ELSE IF rec.attempt <= max_retries
    THEN /\ call' = [call EXCEPT ![c] =
                        [rec EXCEPT !.pc = "sleep",
                                    !.delays = Append(@, Delay(rec.attempt))]]
         /\ UNCHANGED unsupported_methods
    ELSE /\ call' = [call EXCEPT ![c] = Finish(rec, Raise(e))]
         /\ UNCHANGED unsupported_methods

\* the "except Exception" clause of _send_request_with_retry
Classify(c, rec, e) ==
    IF "Unexpected non-whitespace character" \in e.marks \/ "SyntaxError" \in e.marks
    THEN /\ call' = [call EXCEPT ![c] =
                        Finish(rec, Ret(ErrorResponse(JNum(-32700), Text("JSON parsing error"))))]
         /\ UNCHANGED unsupported_methods
    ELSE IF "Method not found" \in e.marks \/ "-32601" \in e.marks
    THEN /\ unsupported_methods' = unsupported_methods \cup {rec.method}
         /\ call' = [call EXCEPT ![c] =
                        Finish(rec, Ret(ErrorResponse(JNum(-32601), Text("Method not found"))))]
    ELSE IF rec.attempt < max_retries
    THEN /\ call' = [call EXCEPT ![c] =
                        [rec EXCEPT !.pc = "sleep",
                                    !.delays = Append(@, Delay(rec.attempt))]]
         /\ UNCHANGED unsupported_methods
    ELSE /\ call' = [call EXCEPT ![c] = Finish(rec, Raise(e))]
         /\ UNCHANGED unsupported_methods

\* write_stream.write returns: _send_request goes on to await the read
WriteReturns(c) ==
    /\ call[c].pc = "write"
    /\ call' = [call EXCEPT ![c] = [@ EXCEPT !.pc = "read"]]
    /\ UNCHANGED << server_capabilities, unsupported_methods, max_retries,
                    disable_capability_check, request_id, stream_kind, initialized >>
    /\ UNCHANGED << journal, proxy_vars, relay_vars >>

\* write_stream.write raises: the exception leaves _send_request
WriteRaises(c, e) ==
    /\ call[c].pc = "write"
    /\ IsNotFound(e) => call[c].method \in NotImplemented
    /\ Classify(c, [call[c] EXCEPT !.hist = Append(@, Event("write", Raise(e), Raise(e)))], e)
    /\ UNCHANGED << server_capabilities, max_retries, disable_capability_check,
                    request_id, stream_kind, initialized >>
    /\ UNCHANGED << journal, proxy_vars, relay_vars >>

\* how the retry loop goes on when _send_request ends with out
AttemptEnds(c, rec, out) ==
    IF out.raise
    THEN Classify(c, rec, out.exc)
    ELSE /\ call' = [call EXCEPT ![c] = Finish(rec, out)]
         /\ UNCHANGED unsupported_methods

\* read_stream.read() completes and _send_request handles the response
ReadCompletes(c, raw) ==
    /\ call[c].pc = "read"
    /\ \E frame \in {StreamRead(stream_kind, raw, request_id)} :
       \E out \in {ProcessResponse(frame)} :
           /\ AttemptEnds(c, [call[c] EXCEPT !.reads = @ + 1,
                                             !.hist = Append(@, Event("read", raw, out))], out)
           /\ journal' = Logged(journal, JournalEntry(raw, request_id, frame, out))
    /\ UNCHANGED << server_capabilities, max_retries, disable_capability_check,
                    request_id, stream_kind, initialized >>
    /\ UNCHANGED << proxy_vars, relay_vars >>

\* the next iteration of the retry loop starting from an empty capability set
WakeForgetsCapabilities(c) ==
    /\ call[c].pc = "sleep"
    /\ call' = [call EXCEPT ![c] = BeginAttempt(@, call[c].attempt + 1)]
    /\ request_id' = request_id + 1
    /\ server_capabilities' = NoCapabilities
    /\ UNCHANGED << unsupported_methods, max_retries,
                    disable_capability_check, stream_kind, initialized >>
    /\ UNCHANGED << journal, proxy_vars, relay_vars >>

\* the next iteration of the retry loop writing its frame under the id of
\* the attempt before
WakeSameId(c) ==
    /\ call[c].pc = "sleep"
    /\ call' = [call EXCEPT ![c] =
                   [BeginAttempt(@, call[c].attempt + 1) EXCEPT !.rid = call[c].rid]]
    /\ UNCHANGED << server_capabilities, unsupported_methods, max_retries,
                    disable_capability_check, request_id, stream_kind, initialized >>
    /\ UNCHANGED << journal, proxy_vars, relay_vars >>

\* asyncio.sleep(delay) is over: the next iteration of the retry loop
Wake(c) ==
    /\ call[c].pc = "sleep"
    /\ call' = [call EXCEPT ![c] = BeginAttempt(@, call[c].attempt + 1)]
    /\ request_id' = request_id + 1
    /\ UNCHANGED << server_capabilities, unsupported_methods, max_retries,
                    disable_capability_check, stream_kind, initialized >>
    /\ UNCHANGED << journal, proxy_vars, relay_vars >>

\* the caller takes the outcome
Return(c) ==
    /\ call[c].pc = "done"
    /\ call' = [call EXCEPT ![c] = IdleCall]
    /\ UNCHANGED << server_capabilities, unsupported_methods, max_retries,
                    disable_capability_check, request_id, stream_kind, initialized >>
    /\ UNCHANGED << journal, proxy_vars, relay_vars >>

Next ==
    \/ Initialize
    \/ \E c \in DOMAIN call, m \in Methods : CallStart(c, m)
    \/ \E c \in DOMAIN call : WriteReturns(c)
    \/ \E c \in DOMAIN call, e \in WriteExceptions : WriteRaises(c, e)
    \/ \E c \in DOMAIN call, raw \in RawReads : ReadCompletes(c, raw)
    \/ \E c \in DOMAIN call : Wake(c)
    \/ \E c \in DOMAIN call : Return(c)

Spec == Init /\ [][Next]_vars

\* every channel write and read that was started terminates, and so does
\* every asyncio.sleep
Terminating ==
    /\ WF_vars(\E c \in {1} : WriteReturns(c) \/ \E e \in WriteExceptions : WriteRaises(c, e))
    /\ WF_vars(\E c \in {1}, raw \in RawReads : ReadCompletes(c, raw))
    /\ WF_vars(\E c \in {1} : Wake(c))

LiveSpec == Init /\ [][Next]_vars /\ Terminating

\* a session as __init__ leaves it (max_retries = 1, capability check on),
\* observed with a journal of its reads
JournalInit ==
    /\ InitWith({1})
    /\ max_retries = 1
    /\ ~disable_capability_check
    /\ journal = EmptyJournal
    /\ NoProxy

JournalSpec == JournalInit /\ [][Next]_vars

\* two callers of one session that run their calls concurrently on the
\* event loop; the session is built on a plain stream and retries once
ConcurrentInit ==
    /\ InitWith({1, 2})
    /\ max_retries = 1
    /\ ~disable_capability_check
    /\ stream_kind = "plain"
    /\ journal = NoJournal
    /\ NoProxy

\* the methods the two callers call and what the channel delivers to them
ConcurrentMethods == {"ping", "prompts/get", "tools/list"}

ConcurrentReads ==
    { Ret(Parsed(NotFoundMsg)), Ret(Parsed(NestedMsg)), Raise(TransportError) }

ConcurrentNext ==
    \/ Initialize
    \/ \E c \in DOMAIN call, m \in ConcurrentMethods : CallStart(c, m)
    \/ \E c \in DOMAIN call : WriteReturns(c)
    \/ \E c \in DOMAIN call, e \in WriteExceptions : WriteRaises(c, e)
    \/ \E c \in DOMAIN call, raw \in ConcurrentReads : ReadCompletes(c, raw)
    \/ \E c \in DOMAIN call : Wake(c)
    \/ \E c \in DOMAIN call : Return(c)

ConcurrentSpec == ConcurrentInit /\ [][ConcurrentNext]_vars

\* ------------------------------------------------------------------------
\* Text frames: a session that makes no retry reads text frames; on a plain
\* stream read_stream.read() hands the text to _send_request as it is
\* ------------------------------------------------------------------------
\* what stands between the quotes of a quoted text
ScanTexts ==
    { << "a" >>, << RB >>, << LB >>, << BS, QT >>, << BS, QT, RB >>, << BS, BS >>,
      << LB, BS, QT, RB >> }

\* the value of the result member: a number, a quoted text, an object
ScanValues ==
    { << "1" >> } \cup { << QT >> \o t \o << QT >> : t \in ScanTexts }
        \cup { << LB, QT >> \o t \o << QT, COLON, "1", RB >> : t \in ScanTexts }

\* {"result":value} and the same without its closing brace
ScanObjects == { << LB >> \o Key("result") \o v \o << RB >> : v \in ScanValues }
ScanOpen == { << LB >> \o Key("result") \o v : v \in ScanValues }

\* what follows the first message, and what precedes it
ScanTails == { << >>, << RB >>, << "x" >>, << LB, RB >>, SecondMsg, << SP >> \o SecondMsg }
ScanLeads == { << "x" >>, << SP >>, << RB >>, << "1" >>, << QT, RB, QT >> }

ScanFrames ==
    { h \o t : h \in ScanObjects, t \in ScanTails }
        \cup ScanOpen \cup { h \o << "x" >> : h \in ScanOpen }
        \cup { l \o h \o t : l \in ScanLeads, h \in ScanObjects, t \in {<< >>, SecondMsg} }
        \cup { << >>, << LB >>, << "x" >>, << QT, "x", QT >> }

ScanInit ==
    /\ InitWith({1})
    /\ max_retries = 0
    /\ ~disable_capability_check
    /\ journal = NoJournal
    /\ NoProxy

ScanNext ==
    \/ \E c \in DOMAIN call : CallStart(c, "ping")
    \/ \E c \in DOMAIN call : WriteReturns(c)
    \/ \E c \in DOMAIN call, f \in ScanFrames : ReadCompletes(c, Ret(JStr(f)))
    \/ \E c \in DOMAIN call : Return(c)

ScanSpec == ScanInit /\ [][ScanNext]_vars

\* ------------------------------------------------------------------------
\* The proxy server of create_proxy_server on the session
\* ------------------------------------------------------------------------
\* the capabilities an upstream reports in its handshake response
ProxyCapSets ==
    { \* no capabilities at all
      CapNone,
      \* an object without any of the attributes
      CapObject({}),
      \* only tools
      CapObject({ CapAttr("prompts", CapNone), CapAttr("resources", CapNone),
                  CapAttr("logging", CapNone), CapAttr("tools", CapObject({})) }),
      \* prompts, logging and resources with subscribe
      CapObject({ CapAttr("prompts", CapObject({})),
                  CapAttr("resources", CapObject({ CapAttr("subscribe", CapObject({})) })),
                  CapAttr("logging", CapObject({})), CapAttr("tools", CapNone) }),
      \* resources with subscribe set to None, and tools
      CapObject({ CapAttr("prompts", CapNone),
                  CapAttr("resources", CapObject({ CapAttr("subscribe", CapNone) })),
                  CapAttr("logging", CapNone), CapAttr("tools", CapObject({})) }),
      \* resources without a subscribe attribute, and logging
      CapObject({ CapAttr("prompts", CapNone), CapAttr("resources", CapObject({})),
                  CapAttr("logging", CapObject({})), CapAttr("tools", CapNone) }) }

\* self.server_capabilities = response.capabilities or {}, as the gate's
\* getattr(self.server_capabilities, family, False) sees it
GateView(caps) ==
    IF ~caps.truthy THEN NoCapabilities
    ELSE [f \in Families |->
             IF ~hasattr(caps, f) THEN "absent"
             ELSE IF getattr(caps, f).truthy THEN "truthy" ELSE "falsy"]

\* the request types of the dispatch table
PromptHandlers == {"ListPromptsRequest", "GetPromptRequest"}
ResourceHandlers == {"ListResourcesRequest", "ReadResourceRequest"}
SubscribeHandlers == {"SubscribeRequest", "UnsubscribeRequest"}
LoggingHandlers == {"SetLevelRequest"}
ToolHandlers == {"ListToolsRequest", "CallToolRequest"}
CompleteHandlers == {"CompleteRequest"}

Requests ==
    PromptHandlers \cup ResourceHandlers \cup SubscribeHandlers \cup LoggingHandlers
        \cup ToolHandlers \cup CompleteHandlers

\* the registrations with the subscribe handlers depending on resources only
RegisteredFlat(caps) ==
    (IF get_capability(caps, << "prompts" >>) THEN PromptHandlers ELSE {})
        \cup (IF get_capability(caps, << "resources" >>)
              THEN ResourceHandlers \cup SubscribeHandlers ELSE {})
        \cup (IF get_capability(caps, << "logging" >>) THEN LoggingHandlers ELSE {})
        \cup (IF get_capability(caps, << "tools" >>) THEN ToolHandlers ELSE {})
        \cup CompleteHandlers

\* app.request_handlers when create_proxy_server returns
Registered(caps) ==
    (IF get_capability(caps, << "prompts" >>) THEN PromptHandlers ELSE {})
        \cup (IF get_capability(caps, << "resources" >>)
              THEN ResourceHandlers
                     \cup (IF get_capability(caps, << "resources", "subscribe" >>)
                           THEN SubscribeHandlers ELSE {})
              ELSE {})
        \cup (IF get_capability(caps, << "logging" >>) THEN LoggingHandlers ELSE {})
        \cup (IF get_capability(caps, << "tools" >>) THEN ToolHandlers ELSE {})
        \cup CompleteHandlers

\* the notification handlers registered only when a capability is reported
RegisteredNotificationsGated(caps) ==
    IF \E f \in {"prompts", "resources", "logging", "tools"} : get_capability(caps, << f >>)
    THEN {"ProgressNotification"} ELSE {}

\* app.notification_handlers when create_proxy_server returns
RegisteredNotifications(caps) == {"ProgressNotification"}

\* create_proxy_server: the handshake through remote_app.initialize(), then
\* the registration of the handlers
CreateProxyServer ==
    /\ ~initialized
    /\ \E caps \in ProxyCapSets :
           /\ server_capabilities' = GateView(caps)
           /\ capabilities' = caps
           /\ request_handlers' = Registered(caps)
           /\ notification_handlers' = RegisteredNotifications(caps)
    /\ initialized' = TRUE
    /\ handshake' = HandshakeReturned(HandshakeCalled(handshake))
    /\ UNCHANGED << unsupported_methods, max_retries, disable_capability_check,
                    request_id, stream_kind, call, journal >>
    /\ UNCHANGED << downstream, notification, wrapper, relay >>

\* the handlers that call a method the session overrides, with the method
\* name the override passes to _send_request_with_retry
Overridden ==
    [ListPromptsRequest |-> "prompts/list", GetPromptRequest |-> "prompts/get",
     ListResourcesRequest |-> "resources/list", ReadResourceRequest |-> "resources/read",
     ListToolsRequest |-> "tools/list", CallToolRequest |-> "tools/call"]

\* the handlers that call a method the session inherits from ClientSession,
\* with the method name of the request ClientSession sends
Inherited ==
    [SubscribeRequest |-> "resources/subscribe",
     UnsubscribeRequest |-> "resources/unsubscribe",
     SetLevelRequest |-> "logging/setLevel", CompleteRequest |-> "completion/complete"]

\* a method inherited from ClientSession: send_request takes the next request
\* id and writes the request; neither _is_method_supported nor
\* _send_request_with_retry is involved
InheritedCall(c, m) ==
    /\ call[c].pc = "idle"
    /\ request_id < MaxRequestId
    /\ call' = [call EXCEPT ![c] =
                   [IdleCall EXCEPT !.pc = "library", !.method = m, !.via = "library",
                                    !.denied = m \in unsupported_methods,
                                    !.rid = request_id, !.sends = 1]]
    /\ request_id' = request_id + 1
    /\ UNCHANGED << server_capabilities, unsupported_methods, max_retries,
                    disable_capability_check, stream_kind, initialized >>
    /\ UNCHANGED << journal, proxy_vars, relay_vars >>

\* how a request sent by ClientSession.send_request ends
LibraryOutcomes == {Ret(PyNone), Raise(TransportError)}

LibraryReturns(c, out) ==
    /\ call[c].pc = "library"
    /\ call' = [call EXCEPT ![c] = Finish(@, out)]
    /\ UNCHANGED << server_capabilities, unsupported_methods, max_retries,
                    disable_capability_check, request_id, stream_kind, initialized >>
    /\ UNCHANGED << journal, proxy_vars, relay_vars >>

\* the server dispatches a downstream request to its registered handler,
\* which calls the session method
Dispatch(c, req) ==
    /\ req \in request_handlers
    /\ IF req \in DOMAIN Overridden
       THEN CallStart(c, Overridden[req])
       ELSE InheritedCall(c, Inherited[req])

ProxyNext ==
    \/ CreateProxyServer
    \/ \E c \in DOMAIN call, req \in Requests : Dispatch(c, req)
    \/ \E c \in DOMAIN call : WriteReturns(c)
    \/ \E c \in DOMAIN call, e \in WriteExceptions : WriteRaises(c, e)
    \/ \E c \in DOMAIN call, raw \in RawReads : ReadCompletes(c, raw)
    \/ \E c \in DOMAIN call : Wake(c)
    \/ \E c \in DOMAIN call, out \in LibraryOutcomes : LibraryReturns(c, out)
    \/ \E c \in DOMAIN call : Return(c)

ProxySpec == Init /\ [][ProxyNext]_vars

\* ------------------------------------------------------------------------
\* The programs: run_sse_client (a CapabilityAwareClientSession, the proxy
\* served on stdio) and run_sse_server (a ClientSession, the proxy served
\* over HTTP, the whole connection retried)
\* ------------------------------------------------------------------------
\* max_retries of run_sse_server
ServerMaxRetries == 3

\* the downstream client sends at most this many different requests
MaxDownstream == 1

\* the session state unchanged by a step of the program
session_vars ==
    << server_capabilities, unsupported_methods, max_retries, disable_capability_check,
       request_id, stream_kind, initialized, call, journal >>

\* the method a handler's call of the session sends
MethodOf(req) == IF req \in DOMAIN Overridden THEN Overridden[req] ELSE Inherited[req]

\* asyncio.CancelledError: not an Exception, its message is empty
CancelledError == Exc("CancelledError", {})

RelayInit ==
    /\ InitWith({1})
    /\ max_retries = 1
    /\ ~disable_capability_check
    /\ stream_kind = "memory"
    /\ journal = NoJournal
    /\ capabilities = CapNone
    /\ request_handlers = {}
    /\ notification_handlers = {}
    /\ handshake = NoHandshake
    /\ downstream = {}
    /\ notification = IdleNotification
    /\ wrapper = IdleWrapper
    /\ relay \in {RelayStart("client"), RelayStart("server")}

\* create_proxy_server called on a session whatever its handshake did before
CreateProxyServerCalledAgain ==
    /\ relay.pc = "session"
    /\ handshake.pc # "running"
    /\ handshake' = HandshakeCalled(handshake)
    /\ UNCHANGED << session_vars, proxy_vars, downstream, notification, wrapper, relay >>

\* create_proxy_server is called on the session: remote_app.initialize()
\* sends the handshake and awaits the answer
CreateProxyServerCalled ==
    /\ relay.pc = "session"
    /\ handshake.pc = "none"
    /\ handshake' = HandshakeCalled(handshake)
    /\ UNCHANGED << session_vars, proxy_vars, downstream, notification, wrapper, relay >>

\* the handshake is answered: the handlers are registered and
\* create_proxy_server returns the app
CreateProxyServerReturns(caps) ==
    /\ handshake.pc = "running"
    /\ handshake' = HandshakeReturned(handshake)
    /\ server_capabilities' =
           IF relay.mode = "client" THEN GateView(caps) ELSE server_capabilities
    /\ capabilities' = caps
    /\ request_handlers' = Registered(caps)
    /\ notification_handlers' = RegisteredNotifications(caps)
    /\ initialized' = TRUE
    /\ UNCHANGED << unsupported_methods, max_retries, disable_capability_check,
                    request_id, stream_kind, call, journal >>
    /\ UNCHANGED << downstream, notification, wrapper, relay >>

\* the "except Exception" that sleeps after the last failure as well
ServerRetryWaitsLast(r) ==
    [r EXCEPT !.pc = "backoff", !.retry_count = @ + 1, !.wait_time = 2 ^ r.retry_count]

\* run_sse_server's "except Exception": retry_count += 1, then give up or
\* wait 1.0 * 2 ** (retry_count - 1) seconds
ServerRetry(r) ==
    IF r.retry_count + 1 >= ServerMaxRetries
    THEN [r EXCEPT !.pc = "raised", !.retry_count = @ + 1]
    ELSE [r EXCEPT !.pc = "backoff", !.retry_count = @ + 1, !.wait_time = 2 ^ r.retry_count]

\* the failed handshake swallowed: an app with the completion handler is returned
CreateProxyServerRaisesServes ==
    /\ handshake.pc = "running"
    /\ handshake' = HandshakeRaised(handshake)
    /\ request_handlers' = CompleteHandlers
    /\ UNCHANGED << session_vars, capabilities, notification_handlers, downstream,
                    notification, wrapper, relay >>

\* the handshake fails: the exception leaves create_proxy_server and the
\* session; run_sse_client re-raises it, run_sse_server counts it
CreateProxyServerRaises ==
    /\ handshake.pc = "running"
    /\ handshake' = HandshakeRaised(handshake)
    /\ relay' = IF relay.mode = "server" THEN ServerRetry(relay)
                 ELSE [relay EXCEPT !.pc = "raised"]
    /\ UNCHANGED << session_vars, proxy_vars, downstream, notification, wrapper >>

\* run_sse_server's next iteration: a new stdio client and a new session
Reconnect ==
    /\ relay.pc = "backoff"
    /\ relay' = [relay EXCEPT !.pc = "session", !.attempts = @ + 1]
    /\ handshake' = NoHandshake
    /\ UNCHANGED << session_vars, proxy_vars, downstream, notification, wrapper >>

\* the downstream client sends a request: to the stdin of run_sse_client at
\* any time, to run_sse_server once its HTTP server is up
Arrive(req) ==
    /\ relay.pc = "session"
    /\ relay.mode = "server" => handshake.pc = "returned"
    /\ req \notin downstream
    /\ Cardinality(downstream) < MaxDownstream
    /\ downstream' = downstream \cup {req}
    /\ UNCHANGED << session_vars, proxy_vars, handshake, notification, wrapper, relay >>

\* app.run reads a request the client has sent and calls its handler
Serve(c, req) ==
    /\ relay.pc = "session"
    /\ handshake.pc = "returned"
    /\ req \in downstream
    /\ req \in request_handlers
    /\ IF relay.mode = "client" /\ req \in DOMAIN Overridden
       THEN CallStart(c, Overridden[req])
       ELSE InheritedCall(c, MethodOf(req))

\* the handler that swallows the failure after logging it
SendProgressNotificationLogged(result) == Ret(PyNone)

\* _send_progress_notification: how the handler ends when
\* remote_app.send_progress_notification ended with result
SendProgressNotification(result) == IF result.raise THEN result ELSE Ret(PyNone)

\* a progress notification reaches its handler, which forwards it
NotifyStart ==
    /\ relay.pc = "session"
    /\ handshake.pc = "returned"
    /\ notification.pc = "idle"
    /\ "ProgressNotification" \in notification_handlers
    /\ notification' = [IdleNotification EXCEPT !.pc = "forward", !.sends = 1]
    /\ UNCHANGED << session_vars, proxy_vars, handshake, downstream, wrapper, relay >>

\* remote_app.send_progress_notification returns or raises
NotifyEnds(result) ==
    /\ notification.pc = "forward"
    /\ notification' = [notification EXCEPT !.pc = "done", !.result = result,
                                             !.outcome = SendProgressNotification(result)]
    /\ UNCHANGED << session_vars, proxy_vars, handshake, downstream, wrapper, relay >>

\* the notifier takes the outcome
NotifyReturn ==
    /\ notification.pc = "done"
    /\ notification' = IdleNotification
    /\ UNCHANGED << session_vars, proxy_vars, handshake, downstream, wrapper, relay >>

\* a cancellation that the sleeping call swallows: it goes on to its next attempt
CancelStale(c, whole) ==
    /\ call[c].pc \in {"write", "read", "sleep", "library"}
    /\ IF call[c].pc = "sleep"
       THEN /\ call' = [call EXCEPT ![c] =
                           BeginAttempt([@ EXCEPT !.cancelled = TRUE], call[c].attempt + 1)]
            /\ request_id' = request_id + 1
       ELSE /\ call' = [call EXCEPT ![c] =
                           Finish([@ EXCEPT !.cancelled = TRUE], Raise(CancelledError))]
            /\ UNCHANGED request_id
    /\ relay' = IF whole THEN [relay EXCEPT !.pc = "cancelled"] ELSE relay
    /\ UNCHANGED << server_capabilities, unsupported_methods, max_retries,
                    disable_capability_check, stream_kind, initialized, journal >>
    /\ UNCHANGED << proxy_vars, handshake, downstream, notification, wrapper >>

\* the task of a call is cancelled while it awaits the write, the read or
\* the sleep: CancelledError is raised at the await and leaves the call;
\* when the whole program was cancelled it leaves run_sse_client too
Cancel(c, whole) ==
    /\ call[c].pc \in {"write", "read", "sleep", "library"}
    /\ call' = [call EXCEPT ![c] =
                   Finish([@ EXCEPT !.cancelled = TRUE], Raise(CancelledError))]
    /\ relay' = IF whole THEN [relay EXCEPT !.pc = "cancelled"] ELSE relay
    /\ UNCHANGED << server_capabilities, unsupported_methods, max_retries,
                    disable_capability_check, request_id, stream_kind, initialized,
                    journal >>
    /\ UNCHANGED << proxy_vars, handshake, downstream, notification, wrapper >>

RelayNext ==
    \/ CreateProxyServerCalled
    \/ \E caps \in ProxyCapSets : CreateProxyServerReturns(caps)
    \/ CreateProxyServerRaises
    \/ Reconnect
    \/ \E req \in Requests : Arrive(req)
    \/ \E c \in DOMAIN call, req \in Requests : Serve(c, req)
    \/ \E c \in DOMAIN call : WriteReturns(c)
    \/ \E c \in DOMAIN call, e \in WriteExceptions : WriteRaises(c, e)
    \/ \E c \in DOMAIN call, raw \in RawReads : ReadCompletes(c, raw)
    \/ \E c \in DOMAIN call : Wake(c)
    \/ \E c \in DOMAIN call, out \in LibraryOutcomes : LibraryReturns(c, out)
    \/ \E c \in DOMAIN call : Return(c)
    \/ NotifyStart
    \/ \E result \in LibraryOutcomes : NotifyEnds(result)
    \/ NotifyReturn
    \/ \E c \in DOMAIN call, whole \in BOOLEAN : Cancel(c, whole)

RelaySpec == RelayInit /\ [][RelayNext]_vars

\* ------------------------------------------------------------------------
\* run_sse_server: the connection loop around the session and the HTTP server
\* ------------------------------------------------------------------------
ServerInit ==
    /\ RelayInit
    /\ relay = RelayStart("server")

\* http_server.serve() returns: "return  # Normal exit"
HttpServerReturns ==
    /\ relay.mode = "server"
    /\ relay.pc = "session"
    /\ handshake.pc = "returned"
    /\ relay' = [relay EXCEPT !.pc = "returned"]
    /\ UNCHANGED << session_vars, proxy_vars, handshake, downstream, notification, wrapper >>

\* an exception leaves the attempt: stdio_client or the session fails
\* before the handshake, or the HTTP server fails after it
AttemptRaises ==
    /\ relay.mode = "server"
    /\ relay.pc = "session"
    /\ handshake.pc \in {"none", "returned"}
    /\ relay' = ServerRetry(relay)
    /\ UNCHANGED << session_vars, proxy_vars, handshake, downstream, notification, wrapper >>

\* the task is cancelled at one of its awaits, the handshake and the sleep
\* between two attempts included: CancelledError leaves run_sse_server
ServerCancelled ==
    /\ relay.mode = "server"
    /\ relay.pc \in {"session", "backoff"}
    /\ relay' = [relay EXCEPT !.pc = "cancelled"]
    /\ handshake' = IF handshake.pc = "running" THEN HandshakeRaised(handshake)
                     ELSE handshake
    /\ UNCHANGED << session_vars, proxy_vars, downstream, notification, wrapper >>

ServerNext ==
    \/ CreateProxyServerCalled
    \/ \E caps \in ProxyCapSets : CreateProxyServerReturns(caps)
    \/ CreateProxyServerRaises
    \/ HttpServerReturns
    \/ AttemptRaises
    \/ Reconnect
    \/ ServerCancelled

ServerSpec == ServerInit /\ [][ServerNext]_vars

\* ------------------------------------------------------------------------
\* The handlers of the dispatch table: each is the forwarding function
\* wrapped by create_error_handler
\* ------------------------------------------------------------------------
\* types.ServerResult(value)
ServerResult(value) == [t |-> "ServerResult", root |-> value]

\* the result the wrapper returns for a JSON parsing error
ParseErrorResult == ServerResult(ErrorResponse(JNum(-32700), Text("JSON parsing error")))

\* CallToolResult(content=[TextContent(text=str(e))], isError=True)
CallToolError == [t |-> "CallToolResult", isError |-> TRUE]

\* how the session method called by a forwarding function can end: with a
\* result, or with an exception -- a transport error, an exception whose
\* message names a syntax error, and decode errors: one with a JSON message
\* and a complete object before its position, one with a JSON message and
\* nothing complete before its position, one with a JSON message and an
\* unparsable '}'-ended text before its position, one with json's own message
SessionOutcomes ==
    { Ret(Parsed(FlatMsg)),
      Raise(TransportError),
      Raise(Exc("Exception", {"SyntaxError"})),
      Raise(JSONDecodeError({"JSON"}, NestedMsg \o SecondMsg, Len(NestedMsg))),
      Raise(JSONDecodeError({"Unexpected non-whitespace character", "JSON"},
                            << LB, "a", "b", "c", RB >>, 4)),
      Raise(JSONDecodeError({"JSON"}, << LB, "a", RB, "x" >>, 3)),
      Raise(JSONDecodeError({}, NestedMsg \o SecondMsg, Len(NestedMsg))) }

\* the forwarding function handler_fn: the result wrapped in a ServerResult,
\* the exception logged and re-raised; _call_tool alone turns the exception
\* into a CallToolResult with isError
HandlerFn(req, out) ==
    IF ~out.raise THEN Ret(ServerResult(out.val))
    ELSE IF req = "CallToolRequest" THEN Ret(ServerResult(CallToolError))
    ELSE out

\* the wrapper's test for a JSON parsing error, on the message of the exception
IsJsonParsingError(e) ==
    \/ "Unexpected non-whitespace character" \in e.marks
    \/ "JSON" \in e.marks
    \/ "SyntaxError" \in e.marks

\* the recovery attempted whenever the exception has a doc and a position
\* above zero
SalvageableAnyDoc(e) == e.cls = "JSONDecodeError" /\ e.pos > 0

\* the recovery is attempted: the exception has a doc, pos > 0, the text
\* before pos ends in '}' when stripped, and json.loads accepts it
Salvageable(e) ==
    /\ e.cls = "JSONDecodeError"
    /\ e.pos > 0
    /\ EndsWith(Strip(Slice(e.doc, 0, e.pos)), RB)
    /\ json_loads(Strip(Slice(e.doc, 0, e.pos))).ok

\* the server calls the handler registered for a downstream request:
\* wrapped_handler awaits handler_fn(req)
WrappedCalled(req) ==
    /\ wrapper.pc = "idle"
    /\ req \in request_handlers
    /\ wrapper' = [IdleWrapper EXCEPT !.pc = "handler", !.req = req, !.runs = 1]
    /\ UNCHANGED << session_vars, proxy_vars, handshake, downstream, notification, relay >>

\* handler_fn(req) ends: its result is returned; a JSON parsing error is
\* answered with the -32700 result unless the recovery calls handler_fn
\* again; any other exception is re-raised
HandlerEnds(out) ==
    /\ wrapper.pc = "handler"
    /\ \E first \in {HandlerFn(wrapper.req, out)} :
           wrapper' =
               IF ~first.raise
               THEN [wrapper EXCEPT !.pc = "done", !.first = first, !.outcome = first]
               ELSE IF ~IsJsonParsingError(first.exc)
               THEN [wrapper EXCEPT !.pc = "done", !.first = first, !.outcome = first]
               ELSE IF Salvageable(first.exc)
               THEN [wrapper EXCEPT !.pc = "recovery", !.first = first, !.runs = @ + 1]
               ELSE [wrapper EXCEPT !.pc = "done", !.first = first,
                                    !.outcome = Ret(ParseErrorResult)]
    /\ UNCHANGED << session_vars, proxy_vars, handshake, downstream, notification, relay >>

\* the second handler_fn(req), called by the recovery, ends: its result is
\* returned; its exception is logged and the -32700 result returned
RecoveryEnds(out) ==
    /\ wrapper.pc = "recovery"
    /\ \E second \in {HandlerFn(wrapper.req, out)} :
           wrapper' = [wrapper EXCEPT !.pc = "done", !.second = second,
                                      !.outcome = IF second.raise THEN Ret(ParseErrorResult)
                                                  ELSE second]
    /\ UNCHANGED << session_vars, proxy_vars, handshake, downstream, notification, relay >>

\* the server takes the outcome of the wrapped handler
WrappedReturn ==
    /\ wrapper.pc = "done"
    /\ wrapper' = IdleWrapper
    /\ UNCHANGED << session_vars, proxy_vars, handshake, downstream, notification, relay >>

HandlerNext ==
    \/ CreateProxyServerCalled
    \/ \E caps \in ProxyCapSets : CreateProxyServerReturns(caps)
    \/ \E req \in Requests : WrappedCalled(req)
    \/ \E out \in SessionOutcomes : HandlerEnds(out)
    \/ \E out \in SessionOutcomes : RecoveryEnds(out)
    \/ WrappedReturn

HandlerSpec == RelayInit /\ [][HandlerNext]_vars

\* ------------------------------------------------------------------------
\* The session as run_sse_client configures it from the command line
\* ------------------------------------------------------------------------
\* --max-retries has type=int: every integer is accepted, here the ones
\* from -1 up
ConfiguredRetries == -1..MaxRetries

\* the session of run_sse_client: built on the streams of sse_client,
\* max_retries and disable_capability_check taken from the configuration
ConfiguredInit ==
    /\ server_capabilities = NoCapabilities
    /\ unsupported_methods = {}
    /\ max_retries \in ConfiguredRetries
    /\ disable_capability_check \in BOOLEAN
    /\ request_id = 0
    /\ stream_kind = "memory"
    /\ initialized = FALSE
    /\ call = [c \in {1} |-> IdleCall]
    /\ journal = NoJournal
    /\ NoProxy

ConfiguredSpec == ConfiguredInit /\ [][Next]_vars

\* ------------------------------------------------------------------------
\* Two callers and an upstream that answers every request it received once,
\* in any order, with a frame that carries the id of the request
\* ------------------------------------------------------------------------
\* the upstream's answer to the request frame with this id
ResponseTo(rid) ==
    JObj(<< Pair("jsonrpc", Text("2.0")), Pair("id", JNum(rid)),
            Pair("result", JObj(<< Pair("answer", JNum(rid)) >>)) >>)

\* the request frame with this id has been written: its id was taken and
\* write_stream.write is over
Written(rid) ==
    /\ rid \in 1..request_id
    /\ \A c \in DOMAIN call : ~(call[c].pc = "write" /\ call[c].rid = rid)

\* the answer to the request is in the channel: no read() has returned it yet
InFlight(rid) ==
    /\ Written(rid)
    /\ \A i \in 1..Len(journal.log) : journal.log[i].raw # Ret(ResponseTo(rid))

CorrelatedInit ==
    /\ InitWith({1, 2})
    /\ max_retries = 1
    /\ journal = EmptyJournal
    /\ NoProxy

CorrelatedMethods == {"ping", "tools/call"}

CorrelatedNext ==
    \/ Initialize
    \/ \E c \in DOMAIN call, m \in CorrelatedMethods : CallStart(c, m)
    \/ \E c \in DOMAIN call : WriteReturns(c)
    \/ \E c \in DOMAIN call, rid \in 1..MaxRequestId :
           InFlight(rid) /\ ReadCompletes(c, Ret(ResponseTo(rid)))
    \/ \E c \in DOMAIN call : Return(c)

CorrelatedSpec == CorrelatedInit /\ [][CorrelatedNext]_vars

\* ------------------------------------------------------------------------
\* Properties
\* ------------------------------------------------------------------------
Done(c) == call[c].pc = "done"

\* the outcome is a returned ErrorResponse with this code
IsError(out, code) ==
    /\ ~out.raise
    /\ out.val.t = "ErrorResponse"
    /\ out.val.code = JNum(code)

\* caller c's call starts in this step
Starts(c) == call[c].pc = "idle" /\ call'[c].pc # "idle"

\* the call was rejected at the gate: -32601 and nothing written or read
RejectedAtGate(rec) ==
    /\ rec.pc = "done"
    /\ IsError(rec.outcome, -32601)
    /\ rec.sends = 0
    /\ rec.reads = 0

\* C1: with the bypass off, a call to a method of a family whose capability
\* is absent or false returns -32601 and writes nothing to the channel
\* (no request id is taken, no write is invoked).
C1_AbsentFamilyRejected ==
    [][\A c \in DOMAIN call :
          ( /\ Starts(c)
            /\ ~disable_capability_check
            /\ FamilyOf(call'[c].method) \in Families
            /\ server_capabilities[FamilyOf(call'[c].method)] # "truthy" )
          => /\ RejectedAtGate(call'[c])
             /\ request_id' = request_id]_vars

\* scenario A: the handshake reported only tools and resources/list was rejected
C1_Witness ==
    \E c \in DOMAIN call :
        /\ initialized
        /\ ~disable_capability_check
        /\ server_capabilities =
               [resources |-> "absent", prompts |-> "absent", tools |-> "truthy"]
        /\ call[c].method = "resources/list"
        /\ ~call[c].denied
        /\ RejectedAtGate(call[c])
        /\ request_id = 0

\* C2: a call to a method of the deny-list is rejected with -32601 before any
\* channel write or read, whatever the capabilities; with the bypass set it is
\* sent instead.
C2_DeniedMethodRejected ==
    [][\A c \in DOMAIN call :
          (Starts(c) /\ call'[c].method \in unsupported_methods)
          => IF disable_capability_check
             THEN /\ call'[c].pc = "write"
                  /\ call'[c].sends = 1
                  /\ request_id' = request_id + 1
             ELSE /\ RejectedAtGate(call'[c])
                  /\ request_id' = request_id]_vars

\* a denied method of a family the upstream reports was rejected at the gate
C2_Witness ==
    \E c \in DOMAIN call :
        /\ ~disable_capability_check
        /\ call[c].method = "prompts/get"
        /\ call[c].denied
        /\ server_capabilities["prompts"] = "truthy"
        /\ RejectedAtGate(call[c])

\* the last attempt of a call that has made one
LastEvent(rec) == rec.hist[Len(rec.hist)]

\* the channel raised a transport error in this attempt
TransportFailed(ev) == ev.raw = Raise(TransportError)

\* the upstream answered this attempt with the frame d, delivered as an object
Answered(ev, d) == ev.step = "read" /\ ev.raw = Ret(d)

\* C3: when the upstream answers a call to M with a "method not found" error
\* object, the call returns -32601 and M is in the deny-list afterwards (which
\* is what makes the gate reject the next call to M without channel I/O).
C3_NotFoundAnswerRecorded ==
    \A c \in DOMAIN call :
        (Done(c) /\ call[c].hist # << >>
                 /\ Answered(LastEvent(call[c]), Parsed(NotFoundMsg)))
        => /\ IsError(call[c].outcome, -32601)
           /\ call[c].method \in unsupported_methods

\* C4: a permitted call whose every attempt fails with a transport error, in
\* the write or in the read, makes max_retries + 1 send attempts and then
\* ends with the transport failure.
C4_TransportFailureRetried ==
    \A c \in DOMAIN call :
        (Done(c) /\ call[c].hist # << >>
                 /\ \A i \in 1..Len(call[c].hist) : TransportFailed(call[c].hist[i]))
        => /\ call[c].sends = max_retries + 1
           /\ call[c].outcome = Raise(TransportError)

\* the frame carries a result and no error
IsResultFrame(d) == IsDict(d) /\ HasKey(d, "result") /\ ~HasKey(d, "error")

\* C5: with max_retries = 2, when attempts 1 and 2 fail with a transport
\* error and attempt 3 is answered with a result frame, the call returns that
\* frame's result after exactly 3 sends, and the delay before attempt 3 is
\* larger than the delay before attempt 2.
C5_StopsAtFirstSuccess ==
    \A c \in DOMAIN call :
        ( /\ Done(c)
          /\ max_retries = 2
          /\ Len(call[c].hist) = 3
          /\ TransportFailed(call[c].hist[1])
          /\ TransportFailed(call[c].hist[2])
          /\ call[c].hist[3].step = "read"
          /\ ~call[c].hist[3].raw.raise
          /\ IsResultFrame(call[c].hist[3].raw.val) )
        => /\ call[c].outcome = Ret(DictGet(call[c].hist[3].raw.val, "result", PyNone))
           /\ call[c].sends = 3
           /\ call[c].reads = 1
           /\ Len(call[c].delays) = 2
           /\ call[c].delays[2] > call[c].delays[1]

\* scenario D: two transport failures, then {"id":1,"result":{"data":true}}
C5_Witness ==
    \E c \in DOMAIN call :
        /\ Done(c)
        /\ max_retries = 2
        /\ Len(call[c].hist) = 3
        /\ TransportFailed(call[c].hist[1])
        /\ TransportFailed(call[c].hist[2])
        /\ Answered(call[c].hist[3], Parsed(NestedMsg))
        /\ call[c].outcome = Ret(Parsed(<< LB >> \o Key("data") \o << "true", RB >>))
        /\ call[c].sends = 3

IsSyntaxError(e) ==
    "Unexpected non-whitespace character" \in e.marks \/ "SyntaxError" \in e.marks

\* the attempt ended as MethodUnsupported or as ParseError: _send_request
\* returned such an ErrorResponse or raised an exception classified so
EndsUnsupportedOrParse(ev) ==
    \/ IsError(ev.out, -32601)
    \/ IsError(ev.out, -32700)
    \/ (ev.out.raise /\ (IsSyntaxError(ev.out.exc) \/ IsNotFound(ev.out.exc)))

\* C6 as stated: a call that reached the retry executor and ends as
\* MethodUnsupported or ParseError has made exactly one send attempt and has
\* not slept.
C6_SingleAttemptAsStated ==
    \A c \in DOMAIN call :
        ( /\ Done(c)
          /\ call[c].sends >= 1
          /\ (IsError(call[c].outcome, -32601) \/ IsError(call[c].outcome, -32700)) )
        => /\ call[c].sends = 1
           /\ call[c].delays = << >>

\* C6 amended: an attempt that ends as MethodUnsupported or ParseError is the
\* call's last: no send and no sleep follows it and the call returns the error
\* as an ErrorResponse value; the attempts before it were each followed by one
\* sleep, so a call whose first attempt ends so has sent once and not slept.
C6_ErrorAttemptIsLast ==
    \A c \in DOMAIN call :
        \A i \in 1..Len(call[c].hist) :
            EndsUnsupportedOrParse(call[c].hist[i])
            => /\ i = Len(call[c].hist)
               /\ Done(c)
               /\ call[c].sends = i
               /\ Len(call[c].delays) = i - 1
               /\ (IsError(call[c].outcome, -32601) \/ IsError(call[c].outcome, -32700))

\* a first attempt failed in the write, was retried, and the second attempt
\* ended as a ParseError on a frame with a missing closing brace
C6_Witness ==
    \E c \in DOMAIN call :
        /\ Done(c)
        /\ max_retries = 2
        /\ Len(call[c].hist) = 2
        /\ TransportFailed(call[c].hist[1])
        /\ call[c].hist[2].raw = Ret(JStr(Slice(NestedMsg, 0, Len(NestedMsg) - 1)))
        /\ IsError(call[c].outcome, -32700)
        /\ call[c].sends = 2
        /\ call[c].delays = << BackoffUnit >>

\* C7: a call answered with an application-level error object is sent again
\* while attempt < max_retries, so it ends only after max_retries + 1 attempts.
C7_ApplicationErrorRetried ==
    \A c \in DOMAIN call :
        (Done(c) /\ call[c].hist # << >>
                 /\ Answered(LastEvent(call[c]), Parsed(AppErrorMsg)))
        => call[c].sends = max_retries + 1

\* C8: the k-th sleep of a call lasts k base units, a sleep happens only
\* after a failed attempt that is not the last (attempt < max_retries), no
\* sleep follows the last attempt, and a call that uses up its attempts has
\* slept 1, 2, ..., max_retries units.
C8_LinearBackoff ==
    \A c \in DOMAIN call :
        /\ \A k \in 1..Len(call[c].delays) : call[c].delays[k] = k * BackoffUnit
        /\ \A k \in 2..Len(call[c].delays) : call[c].delays[k] > call[c].delays[k - 1]
        /\ Len(call[c].delays) <= max_retries
        /\ call[c].pc = "sleep"
              => Len(call[c].delays) = call[c].attempt + 1 /\ call[c].attempt < max_retries
        /\ call[c].pc \in {"write", "read"} => Len(call[c].delays) = call[c].attempt
        /\ (Done(c) /\ call[c].sends >= 1) => Len(call[c].delays) = call[c].sends - 1
        /\ (Done(c) /\ call[c].outcome.raise) => Len(call[c].delays) = max_retries

\* a call that used up three attempts slept 0.5 s and then 1.0 s
C8_Witness ==
    \E c \in DOMAIN call :
        /\ Done(c)
        /\ max_retries = 2
        /\ call[c].outcome.raise
        /\ call[c].sends = 3
        /\ call[c].delays = << 5, 10 >>

\* the frames that hold a first message followed by a second message or by
\* garbage, each with its first message
ConcatCases ==
    { [frame |-> NestedMsg \o sep \o SecondMsg, first |-> NestedMsg] : sep \in Separators }
        \cup { [frame |-> NestedMsg \o << "x" >>, first |-> NestedMsg],
               [frame |-> FlatMsg \o SecondMsg, first |-> FlatMsg] }

\* the call ended on a read that delivered this text frame
EndedOnText(c, text) ==
    /\ Done(c)
    /\ call[c].hist # << >>
    /\ LastEvent(call[c]).step = "read"
    /\ LastEvent(call[c]).raw = Ret(JStr(text))

\* C9: a call whose response frame is a well-formed first message followed
\* by a second message or by garbage returns the first message's result.
C9_FirstMessageRecovered ==
    \A c \in DOMAIN call :
        \A cc \in ConcatCases :
            EndedOnText(c, cc.frame)
            => call[c].outcome = Ret(DictGet(Parsed(cc.first), "result", PyNone))

\* the text is one well-formed JSON object
WellFormed(text) == json_loads(text).ok /\ IsDict(json_loads(text).val)

\* C10: a well-formed text frame is delivered unaltered: the call ends as it
\* does on the object the whole text parses to, never on a parse error or on
\* a truncated object.
C10_WellFormedUnaltered ==
    \A c \in DOMAIN call :
        \A text \in StrFrames :
            (EndedOnText(c, text) /\ WellFormed(text))
            => call[c].outcome = HandleResponse(Parsed(text))

\* the channel delivered something that is not one well-formed object: a text
\* that needs recovery, or a read that raised a JSON decode error
NeedsRecovery(raw) ==
    IF raw.raise THEN raw.exc.cls = "JSONDecodeError"
    ELSE IsStr(raw.val) /\ ~WellFormed(raw.val.chars)

\* the messages of the error frames of the patched read paths
FrameMessages ==
    {"JSON parsing error", "JSON parsing error at position", "Invalid response format"}

\* two entries of the journal hold the same error frame but for the id member
SameFailure(e1, e2) ==
    \E tag \in FrameMessages :
        /\ e1.frame = Ret(ParseErrorFrame(tag, e1.rid))
        /\ e2.frame = Ret(ParseErrorFrame(tag, e2.rid))

\* C11 as stated: recovering the same malformed frame twice in a session
\* yields the same frame both times (the same salvaged object or the same
\* error frame), whatever the request-id counter is.
C11_SameFrameTwice ==
    \A i \in 1..Len(journal.log) : \A j \in 1..Len(journal.log) :
        (journal.log[i].raw = journal.log[j].raw /\ NeedsRecovery(journal.log[i].raw))
        => journal.log[i].frame = journal.log[j].frame

\* C11 amended: recovering the same malformed frame twice in a session ends
\* the same way both times: _send_request returns the same value (the same
\* salvaged result or the same -32700 error), and the frames read are the
\* same salvaged object or error frames with the same code and message that
\* differ at most in the id member, which is the current request id.
C11_SameOutcomeTwice ==
    \A i \in 1..Len(journal.log) : \A j \in 1..Len(journal.log) :
        (journal.log[i].raw = journal.log[j].raw /\ NeedsRecovery(journal.log[i].raw))
        => /\ journal.log[i].out = journal.log[j].out
           /\ \/ journal.log[i].frame = journal.log[j].frame
              \/ SameFailure(journal.log[i], journal.log[j])

\* the frame with the missing closing brace was read twice on a stream
\* patched with enhanced_read, at request ids 1 and 2
C11_Witness ==
    /\ stream_kind = "read"
    /\ Len(journal.log) = 2
    /\ journal.log[1].raw = Ret(JStr(Slice(NestedMsg, 0, Len(NestedMsg) - 1)))
    /\ journal.log[2].raw = journal.log[1].raw
    /\ journal.log[1].rid = 1
    /\ journal.log[2].rid = 2
    /\ journal.log[1].frame # journal.log[2].frame
    /\ IsError(journal.log[1].out, -32700)
    /\ IsError(journal.log[2].out, -32700)

\* what the channel can deliver that holds no JSON object to parse or to
\* salvage: an unparsable text, a text with a missing closing brace, garbage
\* before a message, JSON that is not an object, binary content, and a read
\* that raises a JSON decode error whose document has no object before pos
UnrecoverableReads ==
    { Ret(JStr(f)) : f \in MalformedFrames }
        \cup { Ret(PyBytes) }
        \cup { Raise(JSONDecodeError({"Unexpected non-whitespace character", "JSON"},
                                     << LB, "a", "b", "c", RB >>, 4)) }

WellFormedResult(raw) ==
    /\ ~raw.raise
    /\ \/ IsDict(raw.val) /\ IsResultFrame(raw.val)
       \/ IsStr(raw.val) /\ WellFormed(raw.val.chars)
                         /\ IsResultFrame(Parsed(raw.val.chars))

\* the object a well-formed frame holds
FrameObject(raw) == IF IsStr(raw.val) THEN Parsed(raw.val.chars) ELSE raw.val

\* a read completes in this step and is entered in the journal
ReadLogged == Len(journal'.log) = Len(journal.log) + 1

\* C13: a malformed frame does not end the session: a read that ends as a
\* ParseError leaves the deny-list and the capability set as they were, and
\* when the read after it delivers a well-formed frame, the call returns
\* that frame's result.
C13_SessionSurvivesParseError ==
    [][ReadLogged =>
          LET new == journal'.log[Len(journal'.log)] IN
          /\ IsError(new.out, -32700)
                => /\ unsupported_methods' = unsupported_methods
                   /\ server_capabilities' = server_capabilities
          /\ ( /\ journal.log # << >>
               /\ IsError(journal.log[Len(journal.log)].out, -32700)
               /\ WellFormedResult(new.raw) )
                => new.out = Ret(DictGet(FrameObject(new.raw), "result", PyNone))]_vars

\* the methods the gate is asked about
GateMethods == Methods \cup {"notifications/initialized"}

\* the five rules of the gate in their order: whether the rule applies to the
\* method and what it answers
GateRules(m, bypass, deny, caps) ==
    << [applies |-> bypass, allow |-> TRUE],
       [applies |-> m \in deny, allow |-> FALSE],
       [applies |-> m \in {"initialize", "notifications/initialized"}, allow |-> TRUE],
       [applies |-> FamilyOf(m) \in Families,
        allow |-> IF FamilyOf(m) \in Families THEN caps[FamilyOf(m)] = "truthy" ELSE FALSE],
       [applies |-> TRUE, allow |-> TRUE] >>

\* the answer of the first rule that applies
FirstApplicable(rules) ==
    rules[CHOOSE i \in 1..Len(rules) :
              rules[i].applies /\ \A j \in 1..(i - 1) : ~rules[j].applies].allow

\* C14: for every method, and the bypass, deny-list and capabilities of the
\* session, the gate answers what the first applicable rule answers, in the
\* order bypass, deny-list, handshake methods, family capability, default
\* allow; a call that starts is rejected at the gate exactly when that
\* answer is "disallow".
C14_GateRuleOrder ==
    [][/\ \A m \in GateMethods :
             is_method_supported(m, disable_capability_check, unsupported_methods,
                                 server_capabilities)
               = FirstApplicable(GateRules(m, disable_capability_check,
                                           unsupported_methods, server_capabilities))
       /\ \A c \in DOMAIN call :
             Starts(c)
             => (RejectedAtGate(call'[c])
                   <=> ~FirstApplicable(GateRules(call'[c].method, disable_capability_check,
                                                  unsupported_methods, server_capabilities)))]_vars

\* initialize is on the deny-list and a call to it was rejected at the gate:
\* the deny-list rule came before the handshake rule
C14_Witness ==
    \E c \in DOMAIN call :
        /\ ~disable_capability_check
        /\ "initialize" \in unsupported_methods
        /\ call[c].method = "initialize"
        /\ call[c].denied
        /\ RejectedAtGate(call[c])

\* the dotted paths asked of the capabilities, as their segments
CapPaths ==
    { << "prompts" >>, << "resources" >>, << "resources", "subscribe" >>,
      << "logging" >>, << "tools" >>, << "tools", "listChanged" >>,
      << "resources", "subscribe", "x" >> }

\* the values along a path: Along(caps, path)[k] holds the value reached after
\* k segments, or nothing when one of the first k segments does not exist
Along(caps, path) ==
    LET objs[k \in 0..Len(path)] ==
            IF k = 0 THEN << caps >>
            ELSE IF objs[k - 1] = << >> THEN << >>
            ELSE IF hasattr(objs[k - 1][1], path[k])
            THEN << getattr(objs[k - 1][1], path[k]) >>
            ELSE << >>
    IN  objs

EverySegmentExists(caps, path) == Along(caps, path)[Len(path)] # << >>

\* the capability at the path was reported: every segment exists and the
\* final value is truthy
Reported(caps, path) ==
    /\ EverySegmentExists(caps, path)
    /\ Along(caps, path)[Len(path)][1].truthy

\* a proxy server has been created on the session
ProxyCreated == initialized /\ request_handlers # {}

\* C15: get_capability is total and fail-closed: for the capabilities of the
\* handshake and every dotted path it is true exactly when every segment of
\* the path exists and the final value is truthy; with a missing segment at
\* any depth, or with absent or empty capability data, it is false.
C15_FailClosedQuery ==
    \A path \in CapPaths :
        /\ get_capability(capabilities, path) \in BOOLEAN
        /\ get_capability(capabilities, path) <=> Reported(capabilities, path)
        /\ ~EverySegmentExists(capabilities, path) => ~get_capability(capabilities, path)
        /\ (~capabilities.truthy \/ capabilities.attrs = {})
              => ~get_capability(capabilities, path)

\* the handshake reported resources without a subscribe attribute: the query
\* for resources is true, the one for resources.subscribe is false, and the
\* dispatch table was filled accordingly
C15_Witness ==
    /\ ProxyCreated
    /\ hasattr(capabilities, "resources")
    /\ ~hasattr(getattr(capabilities, "resources"), "subscribe")
    /\ get_capability(capabilities, << "resources" >>)
    /\ ~get_capability(capabilities, << "resources", "subscribe" >>)
    /\ "ListResourcesRequest" \in request_handlers
    /\ "SubscribeRequest" \notin request_handlers

\* C16: after create_proxy_server has returned, the dispatch table holds the
\* handlers of a family exactly when the family was reported at the
\* handshake: list/get prompt iff prompts, list/read resource iff resources,
\* subscribe/unsubscribe iff resources and resources.subscribe,
\* set-logging-level iff logging, list/call tool iff tools.
C16_HandlersMatchCapabilities ==
    IF ~initialized THEN request_handlers = {}
    ELSE
    /\ \A h \in PromptHandlers :
          h \in request_handlers <=> Reported(capabilities, << "prompts" >>)
    /\ \A h \in ResourceHandlers :
          h \in request_handlers <=> Reported(capabilities, << "resources" >>)
    /\ \A h \in SubscribeHandlers :
          h \in request_handlers
            <=> ( /\ Reported(capabilities, << "resources" >>)
                  /\ Reported(capabilities, << "resources", "subscribe" >>) )
    /\ \A h \in LoggingHandlers :
          h \in request_handlers <=> Reported(capabilities, << "logging" >>)
    /\ \A h \in ToolHandlers :
          h \in request_handlers <=> Reported(capabilities, << "tools" >>)
    /\ request_handlers \subseteq Requests

\* the handshake reported prompts, logging and resources with subscribe and
\* no tools: the table holds their seven handlers and no tool handler
C16_Witness ==
    /\ ProxyCreated
    /\ Reported(capabilities, << "resources", "subscribe" >>)
    /\ ~Reported(capabilities, << "tools" >>)
    /\ request_handlers
         = PromptHandlers \cup ResourceHandlers \cup SubscribeHandlers
             \cup LoggingHandlers \cup CompleteHandlers

\* C17: the deny-list only grows: no step of the session (handshake, call
\* start, write, read with its frame recovery, sleep, return) removes a
\* method from unsupported_methods, so the deny-list after a step is a
\* superset of the deny-list before it.
C17_DenyListMonotonic ==
    [][unsupported_methods \subseteq unsupported_methods']_vars

\* a second method was deny-listed while the first one stayed, and the call
\* that added it has ended
C17_Witness ==
    /\ \E a, b \in unsupported_methods : a # b
    /\ \E c \in DOMAIN call :
          /\ Done(c)
          /\ call[c].sends >= 1
          /\ call[c].method \in unsupported_methods
          /\ IsError(call[c].outcome, -32601)

\* the outcome is a returned structured error
IsStructuredError(out) == ~out.raise /\ out.val.t = "ErrorResponse"

\* C18: a call other than the handshake that starts while the handshake
\* has not completed is rejected on the spot with a structured error and
\* writes nothing to the upstream channel: it takes no request id and invokes
\* no write.
C18_NoWriteBeforeReady ==
    [][\A c \in DOMAIN call :
          (Starts(c) /\ ~initialized /\ call'[c].method # "initialize") =>
              /\ call'[c].pc = "done"
              /\ IsStructuredError(call'[c].outcome)
              /\ call'[c].sends = 0
              /\ request_id' = request_id]_vars

\* every one of the max_retries + 1 attempts of the call was made and ended
\* with an exception leaving _send_request
AllAttemptsFailed(rec) ==
    /\ rec.pc = "done"
    /\ rec.sends = max_retries + 1
    /\ Len(rec.hist) = max_retries + 1
    /\ \A i \in DOMAIN rec.hist : rec.hist[i].out.raise

\* C19: a call whose max_retries + 1 attempts all failed ends by returning
\* a structured error; no exception is raised out of the call.
C19_ExhaustedReturnsError ==
    \A c \in DOMAIN call :
        AllAttemptsFailed(call[c]) => IsStructuredError(call[c].outcome)

\* C20: every request the proxy forwards is started by the retry executor
\* behind the method gate: the call runs in _send_request_with_retry, and it
\* writes upstream only if the gate admitted its method.
C20_ForwardedThroughGateAndRetry ==
    [][\A c \in DOMAIN call :
          Starts(c) =>
              /\ call'[c].via = "retry"
              /\ call'[c].sends >= 1 =>
                     is_method_supported(call'[c].method, disable_capability_check,
                                         unsupported_methods, server_capabilities)]_vars

\* the attempt that just ended left _send_request with a "not found" exception
NotFoundObserved(rec) ==
    /\ rec.hist # << >>
    /\ LastEvent(rec).out.raise
    /\ IsNotFound(LastEvent(rec).out.exc)

\* caller c's call, written to the channel, ends in this step with the
\* "not found" outcome
NotFoundLands(c) ==
    /\ call[c].pc \in {"write", "read"}
    /\ call'[c].pc = "done"
    /\ IsError(call'[c].outcome, -32601)

\* C25: under concurrent calls the deny-list is a set union: a step makes
\* the deny-list exactly what it was plus the methods of the calls that
\* receive the "not found" outcome in it, whatever the order of the calls
\* and however often a method is reported.
C25_DenyListIsUnion ==
    [][unsupported_methods' =
           unsupported_methods
               \cup { call[c].method : c \in { d \in DOMAIN call : NotFoundLands(d) } }]_vars

\* the deny-list is the union over the calls whose attempt left
\* _send_request with a "not found" exception in the step
DenyListIsUnionOfObserved ==
    [][unsupported_methods' =
           unsupported_methods
               \cup { call[c].method :
                        c \in { d \in DOMAIN call :
                                    /\ call[d].pc \in {"write", "read"}
                                    /\ call'[d].pc = "done"
                                    /\ NotFoundObserved(call'[d]) } }]_vars

\* C26: the gate is a pure decision: the step in which a call starts leaves
\* the deny-list and the capability set as they were, and a call rejected at
\* the gate also leaves the request-id counter alone and writes nothing; the
\* deny-list changes only in a step in which the retry executor observes a
\* "not found" exception, and then by the method of that call only.
C26_GateIsPure ==
    [][/\ \A c \in DOMAIN call :
             Starts(c) =>
                 /\ unsupported_methods' = unsupported_methods
                 /\ server_capabilities' = server_capabilities
                 /\ call'[c].pc = "done" =>
                        (request_id' = request_id /\ call'[c].sends = 0)
       /\ unsupported_methods' # unsupported_methods =>
              \E c \in DOMAIN call :
                  /\ call[c].pc \in {"write", "read"}
                  /\ NotFoundObserved(call'[c])
                  /\ unsupported_methods' = unsupported_methods \cup {call[c].method}]_vars

\* a call was rejected at the gate for a deny-listed method, the deny-list
\* having been filled by an earlier call
C26_Witness ==
    \E c \in DOMAIN call :
        /\ RejectedAtGate(call[c])
        /\ call[c].denied
        /\ call[c].method = "ping"
        /\ unsupported_methods = {"ping"}
        /\ request_id = 1

\* C27: the capability set is read-only after the handshake: once
\* initialize has returned, no step (call start, write, read with its frame
\* recovery, deny-list update, sleep, retry, return) changes
\* server_capabilities.
C27_CapabilitiesReadOnly ==
    [][initialized => server_capabilities' = server_capabilities]_vars

\* after a handshake that reported prompts, a call was retried, answered
\* "not found" and deny-listed, and the capability set is still the reported one
C27_Witness ==
    \E c \in DOMAIN call :
        /\ initialized
        /\ ~disable_capability_check
        /\ server_capabilities["prompts"] = "truthy"
        /\ Done(c)
        /\ call[c].method = "prompts/get"
        /\ call[c].sends >= 2
        /\ call[c].method \in unsupported_methods

\* where the text stands after its first n symbols: inside quoted text (q),
\* and with the next symbol escaped by a backslash (esc)
RECURSIVE TextState(_, _)
TextState(s, n) ==
    IF n = 0 THEN [q |-> FALSE, esc |-> FALSE]
    ELSE LET before == TextState(s, n - 1) IN
         IF before.esc THEN [q |-> before.q, esc |-> FALSE]
         ELSE IF before.q /\ s[n] = BS THEN [q |-> TRUE, esc |-> TRUE]
         ELSE IF s[n] = QT THEN [q |-> ~before.q, esc |-> FALSE]
         ELSE before

\* the braces of the first n symbols that stand outside quoted text
CountedBraces(s, n, brace) ==
    { i \in 1..n : s[i] = brace /\ ~TextState(s, i - 1).q }

\* the brace depth after the first n symbols
Depth(s, n) == Cardinality(CountedBraces(s, n, LB)) - Cardinality(CountedBraces(s, n, RB))

\* the lengths of the prefixes that end at a counted closing brace with depth zero
BalancedEnds(s) ==
    { n \in 1..Len(s) : s[n] = RB /\ ~TextState(s, n - 1).q /\ Depth(s, n) = 0 }

\* the length of the shortest such prefix
ShortestBalanced(s) == CHOOSE n \in BalancedEnds(s) : \A k \in BalancedEnds(s) : n <= k

\* how _send_request ends on the text handed to json.loads
OutcomeOfText(text) ==
    IF ~json_loads(text).ok
    THEN Ret(ErrorResponse(JNum(-32700), Text("JSON parsing error")))
    ELSE HandleResponse(json_loads(text).val)

\* the call has ended and its last attempt read the text frame f
ReadText(rec, f) ==
    /\ rec.pc = "done"
    /\ rec.hist # << >>
    /\ LastEvent(rec).step = "read"
    /\ LastEvent(rec).raw = Ret(JStr(f))

\* C28: for a text frame that reaches _send_request and begins with an
\* opening brace, _send_request ends as it does on the shortest prefix ending
\* at the closing brace that returns the depth to zero, braces inside quoted
\* text not counted and a backslash in quoted text escaping the next symbol;
\* when the depth never returns to zero the call ends with the ParseError
\* -32700.
C28_BalancedPrefixParsed ==
    \A c \in DOMAIN call : \A f \in ScanFrames :
        (stream_kind = "plain" /\ ReadText(call[c], f) /\ StartsWith(f, LB)) =>
            IF BalancedEnds(f) # {}
            THEN call[c].outcome = OutcomeOfText(Slice(f, 0, ShortestBalanced(f)))
            ELSE IsError(call[c].outcome, -32700)

\* a frame whose first message holds an escaped quote and a closing brace
\* in quoted text and is followed by a second message was read, and the
\* call returned the first message's result
C28_Witness ==
    \E c \in DOMAIN call :
        /\ stream_kind = "plain"
        /\ ReadText(call[c], << LB >> \o Key("result") \o << QT, BS, QT, RB, QT, RB >> \o SecondMsg)
        /\ call[c].outcome = Ret(JStr(<< QT, RB >>))

Examined(f) == IF stream_kind = "plain" THEN f ELSE Strip(f)

Running(c) == call[c].pc \in {"write", "read", "sleep"}

\* C30: every call terminates: when every write, read and sleep terminates,
\* a call that is under way ends, and at no time has it made more than
\* max_retries + 1 send attempts or slept more than max_retries times.
C30_CallsTerminate ==
    /\ [](\A c \in {1} : /\ call[c].sends <= max_retries + 1
                          /\ Len(call[c].delays) <= max_retries)
    /\ \A c \in {1} : Running(c) ~> Done(c)

\* a call with two retries has used all three attempts and both sleeps and
\* has ended
C30_Witness ==
    \E c \in DOMAIN call :
        /\ max_retries = 2
        /\ Done(c)
        /\ call[c].sends = 3
        /\ Len(call[c].delays) = 2

\* C21: the handshake runs at most once per session, and no call of the
\* session starts before it has returned: a request the downstream client
\* sends while the handshake is in flight waits, it starts no second
\* handshake, and nothing runs the handshake again once it has returned.
C21_HandshakeOnce ==
    [][/\ handshake'.count <= 1
       /\ handshake.pc \in {"running", "returned"} => handshake'.count = handshake.count
       /\ \A c \in DOMAIN call :
              Starts(c) => (handshake.pc = "returned" /\ handshake' = handshake)]_vars

\* the downstream client has sent a request while the handshake is in
\* flight, and no call has started
C21_Witness ==
    /\ handshake = [pc |-> "running", count |-> 1]
    /\ downstream # {}
    /\ \A c \in DOMAIN call : call[c] = IdleCall

\* C22: a failed handshake is fatal to its session: the exception leaves
\* create_proxy_server, no handler is registered, no call of the session is
\* ever served, and the handshake is not run again on that session (only
\* run_sse_server goes on, with a new session).
C22_HandshakeFailureFatal ==
    [][/\ handshake'.pc = "raised" =>
              /\ request_handlers' = {}
              /\ capabilities' = CapNone
              /\ ~initialized'
              /\ \A c \in DOMAIN call : call'[c] = IdleCall
              /\ relay'.pc \in {"raised", "backoff"}
       /\ handshake.pc = "raised" =>
              \/ handshake' = handshake
              \/ /\ handshake' = NoHandshake
                 /\ relay.mode = "server"
                 /\ relay.pc = "backoff"]_vars

\* run_sse_client has ended with the handshake's exception while a
\* downstream request was waiting
C22_Witness ==
    /\ handshake = [pc |-> "raised", count |-> 1]
    /\ relay.mode = "client"
    /\ relay.pc = "raised"
    /\ downstream # {}
    /\ request_handlers = {}

\* C23: a progress notification is forwarded upstream exactly once, and
\* when the forwarding fails the handler ends by raising that failure: it
\* does not end normally after a failure.
C23_NotificationFailureSurfaced ==
    notification.pc = "done" =>
        /\ notification.sends = 1
        /\ notification.result.raise => notification.outcome = notification.result
        /\ ~notification.result.raise => ~notification.outcome.raise

\* the forwarding of a notification failed and the handler raised the failure
C23_Witness ==
    /\ notification.pc = "done"
    /\ notification.result = Raise(TransportError)
    /\ notification.outcome = Raise(TransportError)

\* C24: a call cancelled while it sleeps between attempts ends in that
\* step with the cancellation: it makes no further send, takes no further
\* request id, and nothing of a later attempt is added to it.
C24_CancelledSleepEnds ==
    [][\A c \in DOMAIN call :
          (call[c].pc = "sleep" /\ call'[c].cancelled) =>
              /\ call'[c].pc = "done"
              /\ call'[c].outcome = Raise(CancelledError)
              /\ call'[c].sends = call[c].sends
              /\ call'[c].reads = call[c].reads
              /\ call'[c].delays = call[c].delays
              /\ request_id' = request_id]_vars

\* a call was cancelled in the sleep after its first attempt, with an
\* attempt left, and ended with the cancellation after one send
C24_Witness ==
    \E c \in DOMAIN call :
        /\ call[c].cancelled
        /\ Done(c)
        /\ call[c].outcome = Raise(CancelledError)
        /\ call[c].sends = 1
        /\ Len(call[c].delays) = 1
        /\ call[c].attempt < max_retries

\* the response frame a finished call took its result from
AnsweredBy(rec) == LastEvent(rec).raw.val

\* C31: when two calls are in flight on one session, each call returns the
\* result of the response frame whose id equals the id of the request frame
\* the call wrote; no interleaving of writes and reads delivers a response
\* to a different call.
C31_ResponseReachesItsCall ==
    \A c \in DOMAIN call :
        (Done(c) /\ call[c].reads >= 1) =>
            /\ DictGet(AnsweredBy(call[c]), "id", PyNone) = JNum(call[c].rid)
            /\ call[c].outcome = Ret(DictGet(ResponseTo(call[c].rid), "result", PyNone))

\* the names and the arguments a downstream request hands to get_prompt and
\* call_tool
RelayedNames == {Text("a"), Text("b")}
RelayedArguments == {JObj(<< >>), JObj(<< Pair("k", JNum(1)) >>), PyNone}

\* the params carry the value: they are the value, or an object with a
\* member that is the value
Carries(params, v) ==
    \/ params = v
    \/ IsDict(params) /\ \E i \in 1..Len(params.kv) : params.kv[i].v = v

\* the params of the request frame the call's last attempt wrote
WrittenParams(rec, first, second) ==
    DictGet(request_data(rec.method, rec.rid,
                         PositionalArgs(rec.method, first, second), NoKwargs),
            "params", PyNone)

\* C32: every argument of a relayed call reaches the upstream: for
\* get_prompt(name, arguments) and call_tool(name, arguments) the params of
\* the request frame written to the channel contain the name and the arguments.
C32_ArgumentsReachUpstream ==
    \A c \in DOMAIN call :
        (call[c].sends >= 1 /\ call[c].method \in {"prompts/get", "tools/call"}) =>
            \A name \in RelayedNames, arguments \in RelayedArguments :
                /\ Carries(WrittenParams(call[c], name, arguments), name)
                /\ Carries(WrittenParams(call[c], name, arguments), arguments)

\* caller c's read completes in this step with read_stream.read() raising
ReadRaises(c) ==
    /\ call[c].pc = "read"
    /\ call'[c].pc # "read"
    /\ StreamRead(stream_kind, LastEvent(call'[c]).raw, request_id).raise

\* C33: an exception raised by read_stream.read() while _send_request awaits
\* the response, a transport failure included, becomes a returned
\* ErrorResponse(-32700): the call ends there without a retry and the
\* deny-list stays as it was; an exception that reaches the retry
\* classification was raised outside the read.
C33_ReadExceptionIsParseError ==
    [][\A c \in DOMAIN call :
          /\ ReadRaises(c) =>
                 /\ call'[c].pc = "done"
                 /\ IsError(call'[c].outcome, -32700)
                 /\ LastEvent(call'[c]).out = call'[c].outcome
                 /\ call'[c].delays = call[c].delays
                 /\ call'[c].sends = call[c].sends
                 /\ unsupported_methods' = unsupported_methods
          /\ (call[c].pc = "read" /\ call'[c].pc # "read"
                  /\ LastEvent(call'[c]).out.raise) => ~ReadRaises(c)]_vars

\* the first read of a call that could have been retried raised a transport
\* error, and the call ended with -32700 after its only attempt
C33_Witness ==
    \E c \in DOMAIN call :
        /\ Done(c)
        /\ max_retries >= 1
        /\ call[c].attempt = 0
        /\ call[c].sends = 1
        /\ LastEvent(call[c]).step = "read"
        /\ LastEvent(call[c]).raw = Raise(TransportError)
        /\ IsError(call[c].outcome, -32700)
        /\ call[c].method \notin unsupported_methods

\* C34: for every integer max_retries the command line accepts, negative
\* ones included, a call the gate permits makes at least one send attempt
\* and ends with a response, an ErrorResponse or a raised error: it never
\* returns None without having written to the upstream.
C34_PermittedCallIsSent ==
    [][\A c \in DOMAIN call :
          (/\ Starts(c)
           /\ is_method_supported(call'[c].method, disable_capability_check,
                                   unsupported_methods, server_capabilities))
          => /\ call'[c].sends >= 1
             /\ call'[c].pc = "write"]_vars

\* the outcome of a recovery path: the parse error, or the value recovered
ParseFailure == [t |-> "ParseError"]

\* what a patched read path made of the frame: a -32700 error frame is the
\* parse error
PathOutcome(out) ==
    IF out.raise THEN ParseFailure
    ELSE IF IsDict(out.val) /\ HasKey(out.val, "error")
            /\ DictGet(out.val, "error", PyNone) # PyNone
            /\ IsDict(DictGet(out.val, "error", PyNone))
            /\ DictGet(DictGet(out.val, "error", PyNone), "code", PyNone) = JNum(-32700)
    THEN ParseFailure
    ELSE out.val

\* what the brace-depth scanner of _send_request makes of the text
ScannerOutcome(f) ==
    IF json_loads(ExtractedJson(f)).ok /\ IsDict(json_loads(ExtractedJson(f)).val)
    THEN json_loads(ExtractedJson(f)).val
    ELSE ParseFailure

\* C35: all frame-recovery paths agree: for a text frame, enhanced_receive
\* and enhanced_read of sse_client, enhanced_receive of sse_server and the
\* brace-depth scanner of _send_request give the same outcome, the same
\* recovered object in all of them or the parse error in all of them.
C35_RecoveryPathsAgree ==
    \A c \in DOMAIN call : \A f \in ScanFrames :
        ReadText(call[c], f) =>
            /\ PathOutcome(enhanced_receive(Ret(JStr(f)), call[c].rid)) = ScannerOutcome(f)
            /\ PathOutcome(enhanced_read(Ret(JStr(f)), call[c].rid)) = ScannerOutcome(f)
            /\ PathOutcome(server_enhanced_receive(Ret(JStr(f)))) = ScannerOutcome(f)

\* caller c's call makes a send attempt in this step
Sends(c) == call'[c].sends = call[c].sends + 1

EndedOnParsingError ==
    /\ wrapper.pc = "done"
    /\ wrapper.first.raise
    /\ IsJsonParsingError(wrapper.first.exc)

\* the text before the error position ends in '}' and parses
PrefixIsObject(e) ==
    /\ e.pos > 0
    /\ EndsWith(Strip(Slice(e.doc, 0, e.pos)), RB)
    /\ json_loads(Strip(Slice(e.doc, 0, e.pos))).ok

\* handler_fn ran at most twice, twice only after a JSON parsing error
\* with an object before its position; its result is returned as it is and
\* an exception that is no JSON parsing error is re-raised unchanged
WrapperRuns ==
    wrapper.pc = "done" =>
        /\ wrapper.runs \in {1, 2}
        /\ wrapper.runs = 2 => EndedOnParsingError /\ PrefixIsObject(wrapper.first.exc)
        /\ ~wrapper.first.raise => wrapper.outcome = wrapper.first
        /\ (wrapper.first.raise /\ ~IsJsonParsingError(wrapper.first.exc)) =>
               wrapper.outcome = wrapper.first

C38_UnconditionalHandlers ==
    initialized =>
        /\ "CompleteRequest" \in request_handlers
        /\ "ProgressNotification" \in notification_handlers

\* the upstream reported no capabilities: the dispatch table holds the
\* completion handler and the progress-notification handler, nothing else
C38_Witness ==
    /\ initialized
    /\ capabilities = CapNone
    /\ request_handlers = {"CompleteRequest"}
    /\ notification_handlers = {"ProgressNotification"}

\* an attempt of run_sse_server fails in this step
AttemptFails == relay'.retry_count = relay.retry_count + 1

\* C39: run_sse_server makes at most 3 connection attempts: after the first
\* and the second failure it waits 1 s and 2 s (2^(retry_count-1)) and
\* starts a new stdio client and session, the third failure is re-raised
\* without a wait, a normal return of the HTTP server ends the loop, and a
\* cancellation is re-raised at once and is not counted as an attempt.
C39_ThreeConnectionAttempts ==
    /\ [](relay.attempts <= 3 /\ relay.retry_count <= 3)
    /\ [][/\ relay'.retry_count \in {relay.retry_count, relay.retry_count + 1}
          /\ AttemptFails =>
                 /\ relay.pc = "session"
                 /\ IF relay'.retry_count = 1
                    THEN relay'.pc = "backoff" /\ relay'.wait_time = 1
                    ELSE IF relay'.retry_count = 2
                    THEN relay'.pc = "backoff" /\ relay'.wait_time = 2
                    ELSE relay'.pc = "raised" /\ relay'.wait_time = relay.wait_time
          /\ relay'.attempts # relay.attempts =>
                 /\ relay.pc = "backoff"
                 /\ relay'.pc = "session"
                 /\ relay'.attempts = relay.attempts + 1
                 /\ relay'.attempts = relay'.retry_count + 1
                 /\ handshake' = NoHandshake
          /\ relay.pc \in {"returned", "raised", "cancelled"} => relay' = relay
          /\ relay'.pc = "cancelled" =>
                 /\ relay'.retry_count = relay.retry_count
                 /\ relay'.attempts = relay.attempts]_vars

\* the third attempt failed after waits of 1 s and 2 s and the failure was
\* re-raised
C39_Witness ==
    /\ relay.mode = "server"
    /\ relay.pc = "raised"
    /\ relay.attempts = 3
    /\ relay.retry_count = 3
    /\ relay.wait_time = 2

====
